---- MODULE Spec2Model ----
(***************************************************************************)
(* A model of the guess-the-blunder / blunderrush puzzle engine:           *)
(*   - position equivalence             (blunderrush/src/lib/chess.ts)     *)
(*   - move-quality and rating grading  (routes/elo/[id] page script)      *)
(*   - the Stockfish evaluation gateway (lib/stockfish, StockfishEngine)   *)
(*   - puzzle reconstruction            (lib/lichess.ts, buildMovesList)   *)
(* Each component has its own specification over the shared variables; the *)
(* variables a specification does not use stay at their idle values.       *)
(***************************************************************************)
EXTENDS Integers, Sequences, FiniteSets, TLC

VARIABLES
  \* ---- position equivalence: the three encodings compared, and the results
  fldA, fldB, fldC,        \* the six fields each encoding was written from
  fenA, fenB, fenC, fenMatch,
  \* ---- move-quality grading: two graded moves against one baseline
  gBestEval, gUserEval, gMoveUci, gOtherEval, gOtherUci, gPoints,
  \* ---- the evaluation gateway (StockfishEngine) and its worker
  worker,          \* this.worker !== null
  isReady,         \* this.isReady
  initPromise,     \* this.initPromise: "none", "pending", "resolved", "rejected"
  pendingEval,     \* this.pendingEval: the evaluate() call whose resolve is held
  currentEval,     \* this.currentEval, with the positions its lines came from
  evals,           \* the evaluate() calls made so far, one promise each
  checkTimer,      \* setTimeout(checkReady, 50) is armed
  timeoutTimer,    \* the 10 s initialization timeout is armed
  stopsSent,       \* stop() calls made so far
  stopSinceEval,   \* stop() was called after the latest evaluate()
  wInbox,          \* postMessage: main thread -> worker
  wOutbox,         \* onmessage: worker -> main thread
  wPosition,       \* the worker's current position
  wSearch,         \* the worker's running search, if any
  \* ---- the collaborators of the rating-guess page
  chessThrows,     \* chess.js rejects an illegal move by throwing (else null)
  provider,        \* puzzle id -> the raw record the Lichess API serves
  storage,         \* localStorage['elo-game-stats']
  \* ---- the rating-guess page (routes/elo/[id]): its $state fields
  puzzleId, loadedPuzzleId, puzzle, loading, error, currentFen, phase,
  allMoves, currentMoveIndex, blunderMoveIndex, isAnimating,
  eloGuess, actualElo, difference,
  bestMoveEval, userMoveEval, userMoveSan, bestMoveSan, movePoints,
  totalGuesses, totalDifference, streak, bestStreak, totalMovePoints,
  displayLastMove,
  fetches,         \* loadPuzzle() calls suspended at `await getBlunderPuzzleById`
  randomFetches,   \* loadRandomPuzzle() calls suspended at their await
  timers,          \* pending setTimeout callbacks of the animation
  evaluatingMove,
  conts,           \* callbacks and awaits suspended on an evaluatePosition() promise
  \* ---- the find-the-blunder page (routes/blunder/[id]): its own $state fields
  solved, attempts, lastGuessSan, lastGuessCorrect, feedbackMessage, evaluating,
  blunderEval, displayLastMoveColor, viewingHistory, hintUsed,
  showSolution, solutionStep, playingSolution,
  \* ---- verdict messages: the inputs shown a message, and the messages
  fbDiff, fbUserEval, fbBlunderEval, fbMessage

fenVars == <<fldA, fldB, fldC, fenA, fenB, fenC, fenMatch>>
gradeVars == <<gBestEval, gUserEval, gMoveUci, gOtherEval, gOtherUci, gPoints>>

engineVars == <<worker, isReady, initPromise, pendingEval, currentEval, evals,
                checkTimer, timeoutTimer, stopsSent, stopSinceEval>>
workerVars == <<wInbox, wOutbox, wPosition, wSearch>>

worldVars == <<chessThrows, provider, storage>>
loadVars == <<puzzleId, loadedPuzzleId, puzzle, loading, error, currentFen, phase,
              allMoves, currentMoveIndex, blunderMoveIndex, isAnimating,
              displayLastMove, fetches, randomFetches, timers>>
guessVars == <<eloGuess, actualElo, difference, totalGuesses, totalDifference,
               streak, bestStreak, totalMovePoints>>
betterVars == <<bestMoveEval, userMoveEval, userMoveSan, bestMoveSan, movePoints,
                evaluatingMove, conts>>
reviewVars == <<viewingHistory, hintUsed>>
solutionVars == <<showSolution, solutionStep, playingSolution>>
blunderVars == <<solved, attempts, lastGuessSan, lastGuessCorrect, feedbackMessage,
                 evaluating, blunderEval, displayLastMoveColor, reviewVars,
                 solutionVars>>
pageVars == <<worldVars, loadVars, guessVars, betterVars, blunderVars>>

feedbackVars == <<fbDiff, fbUserEval, fbBlunderEval, fbMessage>>

vars == <<fenVars, gradeVars, engineVars, workerVars, pageVars, feedbackVars>>

(***************************************************************************)
(* Nullable values (T | null) are sequences of length 0 or 1.              *)
(***************************************************************************)
None == <<>>
Some(x) == <<x>>
IsSome(o) == Len(o) = 1
Val(o) == o[1]

Min(a, b) == IF a <= b THEN a ELSE b
Max(a, b) == IF a >= b THEN a ELSE b
Abs(x) == IF x < 0 THEN -x ELSE x

(***************************************************************************)
(* Strings are sequences of one-character strings, so that split, slice    *)
(* and join act on characters as String.prototype.split / Array.join do.   *)
(***************************************************************************)
RECURSIVE SplitFrom(_, _, _, _)
SplitFrom(s, i, cur, acc) ==
  IF i > Len(s) THEN Append(acc, cur)
  ELSE IF s[i] = " " THEN SplitFrom(s, i + 1, <<>>, Append(acc, cur))
  ELSE SplitFrom(s, i + 1, Append(cur, s[i]), acc)

\* fen.split(' ')
StrSplit(s) == SplitFrom(s, 1, <<>>, <<>>)

RECURSIVE StrJoin(_)
\* parts.join(' ')
StrJoin(parts) ==
  IF Len(parts) = 0 THEN <<>>
  ELSE IF Len(parts) = 1 THEN parts[1]
  ELSE parts[1] \o <<" ">> \o StrJoin(Tail(parts))

\* parts.slice(0, n)
SliceHead(parts, n) == SubSeq(parts, 1, Min(n, Len(parts)))

\* A bug that would also keep the halfmove clock.
normalizeFenKeepsClock(fen) == StrJoin(SliceHead(StrSplit(fen), 5))

\* A bug that would drop the en-passant target as well.
normalizeFenDropsEnPassant(fen) == StrJoin(SliceHead(StrSplit(fen), 3))

normalizeFenForComparison(fen) == StrJoin(SliceHead(StrSplit(fen), 4))

\* A bug that would compare the stripped first encoding with the raw second one.
fenPositionsMatchRawSecond(fen1, fen2) == normalizeFenForComparison(fen1) = fen2

fenPositionsMatch(fen1, fen2) ==
  normalizeFenForComparison(fen1) = normalizeFenForComparison(fen2)

(***************************************************************************)
(* Position encodings: six space-separated fields.                         *)
(***************************************************************************)
Placements == {<<"k", "/", "K">>, <<"k", "/", "Q">>}
Turns      == {<<"w">>, <<"b">>}
Castlings  == {<<"K", "q">>, <<"-">>}
EnPassants == {<<"-">>, <<"e", "3">>}
Halfmoves  == {<<"0">>, <<"1", "2">>}
Fullmoves  == {<<"1">>, <<"4", "0">>}

FenFields == Placements \X Turns \X Castlings \X EnPassants \X Halfmoves \X Fullmoves
FenOf(f) == StrJoin(f)

FenIdle ==
  /\ fldA = <<>> /\ fldB = <<>> /\ fldC = <<>>
  /\ fenA = <<>> /\ fenB = <<>> /\ fenC = <<>>
  /\ fenMatch = None

FenInit ==
  /\ fldA \in FenFields /\ fenA = FenOf(fldA)
  /\ fldB \in FenFields /\ fenB = FenOf(fldB)
  /\ fldC \in FenFields /\ fenC = FenOf(fldC)
  /\ fenMatch = None

\* The page's use of the predicate: every ordered pair of the three encodings.
ComparePositions ==
  /\ fenMatch = None
  /\ fenMatch' = Some([aa |-> fenPositionsMatch(fenA, fenA),
                       ab |-> fenPositionsMatch(fenA, fenB),
                       ba |-> fenPositionsMatch(fenB, fenA),
                       bc |-> fenPositionsMatch(fenB, fenC),
                       ac |-> fenPositionsMatch(fenA, fenC)])
  /\ UNCHANGED <<fldA, fldB, fldC, fenA, fenB, fenC>>

(***************************************************************************)
(* Move-quality grading: calculateMovePoints of the rating page.           *)
(* An EvalResult is [score, mate, bestMove, depth]; mate and bestMove are  *)
(* nullable.                                                               *)
(***************************************************************************)
EvalResult(score, mate, bestMove, depth) ==
  [score |-> score, mate |-> mate, bestMove |-> bestMove, depth |-> depth]

\* A bug that would test for missing samples before the exact-match shortcut.
calculateMovePointsNullFirst(userEval, bestEval, userMoveUci) ==
  IF ~IsSome(userEval) \/ ~IsSome(bestEval) THEN 0
  ELSE IF IsSome(Val(bestEval).bestMove) /\ userMoveUci = Val(Val(bestEval).bestMove)
  THEN 100
  ELSE LET cpLoss == (-Val(bestEval).score) - (-Val(userEval).score)
       IN  IF cpLoss <= 0 THEN 100
           ELSE IF cpLoss <= 25 THEN 90
           ELSE IF cpLoss <= 50 THEN 75
           ELSE IF cpLoss <= 100 THEN 60
           ELSE IF cpLoss <= 200 THEN 40
           ELSE IF cpLoss <= 400 THEN 20
           ELSE 0

\* A bug that would make the breakpoints exclusive.
calculateMovePointsStrict(userEval, bestEval, userMoveUci) ==
  IF IsSome(bestEval) /\ IsSome(Val(bestEval).bestMove)
       /\ userMoveUci = Val(Val(bestEval).bestMove)
  THEN 100
  ELSE IF ~IsSome(userEval) \/ ~IsSome(bestEval) THEN 0
  ELSE LET cpLoss == (-Val(bestEval).score) - (-Val(userEval).score)
       IN  IF cpLoss < 0 THEN 100
           ELSE IF cpLoss < 25 THEN 90
           ELSE IF cpLoss < 50 THEN 75
           ELSE IF cpLoss < 100 THEN 60
           ELSE IF cpLoss < 200 THEN 40
           ELSE IF cpLoss < 400 THEN 20
           ELSE 0

calculateMovePoints(userEval, bestEval, userMoveUci) ==
  \* if (bestEval?.bestMove && userMoveUci === bestEval.bestMove) return 100;
  IF IsSome(bestEval) /\ IsSome(Val(bestEval).bestMove)
       /\ userMoveUci = Val(Val(bestEval).bestMove)
  THEN 100
  \* if (!userEval || !bestEval) return 0;
  ELSE IF ~IsSome(userEval) \/ ~IsSome(bestEval) THEN 0
  ELSE LET userScore == -Val(userEval).score
           bestScore == -Val(bestEval).score
           cpLoss == bestScore - userScore
       IN  IF cpLoss <= 0 THEN 100
           ELSE IF cpLoss <= 25 THEN 90
           ELSE IF cpLoss <= 50 THEN 75
           ELSE IF cpLoss <= 100 THEN 60
           ELSE IF cpLoss <= 200 THEN 40
           ELSE IF cpLoss <= 400 THEN 20
           ELSE 0

\* Scores around every breakpoint, and the two mate-in-one conversions.
ScoreSamples ==
  {-9900, -450, -1, 0, 1, 25, 26, 50, 51, 100, 101, 200, 201, 400, 401, 9900}
BaselineScores == {0, -60, 150}
UserMoves == {"e2e4", "a2a3"}
BestMoves == {None, Some("e2e4"), Some("g1f3")}

MateOfScore(s) == IF s = 9900 THEN Some(1) ELSE IF s = -9900 THEN Some(-1) ELSE None

UserEvals ==
  {None} \cup {Some(EvalResult(s, MateOfScore(s), Some("e7e5"), 15)) : s \in ScoreSamples}
BaselineEvals ==
  {None} \cup {Some(EvalResult(s, None, bm, 15)) : s \in BaselineScores, bm \in BestMoves}

GradeIdle ==
  /\ gBestEval = None /\ gUserEval = None /\ gOtherEval = None
  /\ gMoveUci = "" /\ gOtherUci = "" /\ gPoints = None

GradeInit ==
  /\ gBestEval \in BaselineEvals
  /\ gUserEval \in UserEvals
  /\ gOtherEval \in UserEvals
  /\ gMoveUci \in UserMoves
  /\ gOtherUci \in UserMoves
  /\ gPoints = None

\* Two moves graded against the same baseline.
GradeMoves ==
  /\ gPoints = None
  /\ gPoints' = Some(<<calculateMovePoints(gUserEval, gBestEval, gMoveUci),
                       calculateMovePoints(gOtherEval, gBestEval, gOtherUci)>>)
  /\ UNCHANGED <<gBestEval, gUserEval, gMoveUci, gOtherEval, gOtherUci>>

(***************************************************************************)
(* The evaluation gateway: class StockfishEngine and the UCI worker.       *)
(*                                                                         *)
(* The worker is a UCI engine: it reads its commands in order, answers     *)
(* "uci" with "uciok" and "isready" with "readyok", searches the position  *)
(* last set when told "go depth d", reports "info depth k score ..." lines *)
(* while it searches and ends every search with one "bestmove" line; a     *)
(* "go" read during a search waits for that search to finish, "stop" ends  *)
(* the running search at once.  Every line carries the position it was     *)
(* searched from (pos), which the program does not see.  The worker does   *)
(* not see when its lines are handled, so it is enough to let it post a    *)
(* line once the previous one has been handled.                            *)
(***************************************************************************)
MaxEvals == 2        \* evaluate() calls per run
MaxStops == 1        \* stop() calls per run
MaxInfo == 2         \* info lines of one search
DefaultDepth == 15   \* evaluate(fen, depth = 15)

EnginePositions == {"fenA", "fenB"}
InfoScores == {<<"cp", 30>>, <<"mate", -1>>}
WorkerMoves == {<<"d", "1", "h", "5">>, <<>>}

EmptyEval == [score |-> None, mate |-> None, depth |-> None, srcs |-> {}]

EngineInit ==
  /\ worker = FALSE
  /\ isReady = FALSE
  /\ initPromise = "none"
  /\ pendingEval = None
  /\ currentEval = EmptyEval
  /\ evals = <<>>
  /\ checkTimer = FALSE
  /\ timeoutTimer = FALSE
  /\ stopsSent = 0
  /\ stopSinceEval = FALSE
  /\ wInbox = <<>>
  /\ wOutbox = <<>>
  /\ wPosition = <<"startpos">>
  /\ wSearch = None

EngineIdle == EngineInit

Unsettled(e) == e.state \in {"awaitInit", "pending"}

\* The promise of a new evaluate(fen, depth) call.  It records what the
\* program does not: the position the resolving bestmove line was searched
\* from (src), the positions of the info lines accumulated into the result
\* (accSrc), and whether the call was made while an earlier promise was
\* unsettled with no stop() in between (busy) or with one (afterStop).
NewEval(fen, depth, state) ==
  [fen |-> fen, depth |-> depth, state |-> state, result |-> None,
   error |-> IF state = "rejected" THEN Some("init") ELSE None,
   src |-> None, accSrc |-> {},
   busy |-> (~stopSinceEval /\ \E i \in 1..Len(evals) : Unsettled(evals[i])),
   afterStop |-> (stopSinceEval /\ \E i \in 1..Len(evals) : Unsettled(evals[i]))]

\* new Promise((resolve) => { currentEval = {}; pendingEval = resolve;
\*   postMessage(`position fen ${fen}`); postMessage(`go depth ${depth}`) })
\* run for the calls ids (in order) on the engine state st.
RECURSIVE StartSearches(_, _)
StartSearches(ids, st) ==
  IF ids = <<>> THEN st
  ELSE LET id == Head(ids)
           e  == st.evals[id]
       IN  StartSearches(Tail(ids),
             [evals   |-> [st.evals EXCEPT ![id].state = "pending"],
              pending |-> Some(id),
              inbox   |-> st.inbox \o <<[cmd |-> "position", fen |-> e.fen],
                                          [cmd |-> "go", depth |-> e.depth]>>])

\* The evaluate() calls suspended at `await this.init()`, oldest first.
WaitingIds == SelectSeq([i \in 1..Len(evals) |-> i], LAMBDA i : evals[i].state = "awaitInit")

RejectWaiting(es) ==
  [i \in 1..Len(es) |-> IF es[i].state = "awaitInit"
                           THEN [es[i] EXCEPT !.state = "rejected", !.error = Some("init")]
                           ELSE es[i]]

\* evaluate(): the engine is not ready and init() has not been called yet.
\* init() creates the worker, posts "uci", arms the timeout and polls.
EvaluateFirst(fen, depth) ==
  /\ ~(worker /\ isReady)
  /\ initPromise = "none"
  /\ worker' = TRUE
  /\ initPromise' = "pending"
  /\ wInbox' = Append(wInbox, [cmd |-> "uci"])
  /\ timeoutTimer' = TRUE
  /\ checkTimer' = TRUE
  /\ evals' = Append(evals, NewEval(fen, depth, "awaitInit"))
  /\ stopSinceEval' = FALSE
  /\ UNCHANGED <<isReady, pendingEval, currentEval, stopsSent, wOutbox, wPosition, wSearch>>

\* evaluate(): init() fails at once because new Worker(...) throws.
EvaluateWorkerThrows(fen, depth) ==
  /\ ~worker
  /\ initPromise = "none"
  /\ initPromise' = "rejected"
  /\ evals' = Append(evals, NewEval(fen, depth, "rejected"))
  /\ stopSinceEval' = FALSE
  /\ UNCHANGED <<worker, isReady, pendingEval, currentEval, checkTimer, timeoutTimer,
                 stopsSent, workerVars>>

\* evaluate(): the engine is not ready, init() returns the existing promise.
EvaluateAwaitInit(fen, depth) ==
  /\ ~(worker /\ isReady)
  /\ initPromise \in {"pending", "rejected"}
  /\ evals' = Append(evals, NewEval(fen, depth,
                 IF initPromise = "pending" THEN "awaitInit" ELSE "rejected"))
  /\ stopSinceEval' = FALSE
  /\ UNCHANGED <<worker, isReady, initPromise, pendingEval, currentEval, checkTimer,
                 timeoutTimer, stopsSent, workerVars>>

\* evaluate(): the engine is ready, the search is started synchronously.
EvaluateReady(fen, depth) ==
  /\ worker /\ isReady
  /\ LET id == Len(evals) + 1
         st == StartSearches(<<id>>, [evals |-> Append(evals, NewEval(fen, depth, "pending")),
                                      pending |-> pendingEval, inbox |-> wInbox])
     IN  /\ evals' = st.evals
         /\ pendingEval' = st.pending
         /\ currentEval' = EmptyEval
         /\ wInbox' = st.inbox
  /\ stopSinceEval' = FALSE
  /\ UNCHANGED <<worker, isReady, initPromise, checkTimer, timeoutTimer, stopsSent,
                 wOutbox, wPosition, wSearch>>

\* stop(): this.worker?.postMessage('stop')
Stop ==
  /\ stopsSent < MaxStops
  /\ stopsSent' = stopsSent + 1
  /\ stopSinceEval' = TRUE
  /\ wInbox' = IF worker THEN Append(wInbox, [cmd |-> "stop"]) ELSE wInbox
  /\ UNCHANGED <<worker, isReady, initPromise, pendingEval, currentEval, evals,
                 checkTimer, timeoutTimer, wOutbox, wPosition, wSearch>>

\* checkReady(), polling every 50 ms: a poll that finds the engine not ready
\* only re-arms the timer; the poll that finds it ready resolves init(), and
\* the evaluate() calls awaiting it continue in the order they were made.
CheckReady ==
  /\ checkTimer
  /\ isReady
  /\ checkTimer' = FALSE
  /\ IF initPromise = "pending"
     THEN LET st == StartSearches(WaitingIds, [evals |-> evals,
                                   pending |-> pendingEval, inbox |-> wInbox])
          IN  /\ initPromise' = "resolved"
              /\ evals' = st.evals
              /\ pendingEval' = st.pending
              /\ currentEval' = IF WaitingIds = <<>> THEN currentEval ELSE EmptyEval
              /\ wInbox' = st.inbox
     ELSE UNCHANGED <<initPromise, evals, pendingEval, currentEval, wInbox>>
  /\ UNCHANGED <<worker, isReady, timeoutTimer, stopsSent, stopSinceEval,
                 wOutbox, wPosition, wSearch>>

\* The 10 s timer: rejects init() unless the engine is ready by then.
InitTimeout ==
  /\ timeoutTimer
  /\ timeoutTimer' = FALSE
  /\ IF ~isReady /\ initPromise = "pending"
     THEN /\ initPromise' = "rejected"
          /\ evals' = RejectWaiting(evals)
     ELSE UNCHANGED <<initPromise, evals>>
  /\ UNCHANGED <<worker, isReady, pendingEval, currentEval, checkTimer, stopsSent,
                 stopSinceEval, workerVars>>

\* worker.onerror: rejects init().
WorkerError ==
  /\ worker
  /\ initPromise = "pending"
  /\ initPromise' = "rejected"
  /\ evals' = RejectWaiting(evals)
  /\ UNCHANGED <<worker, isReady, pendingEval, currentEval, checkTimer, timeoutTimer,
                 stopsSent, stopSinceEval, workerVars>>

\* handleMessage('uciok')
HandleUciOk ==
  /\ wOutbox # <<>> /\ Head(wOutbox).type = "uciok"
  /\ wOutbox' = Tail(wOutbox)
  /\ wInbox' = Append(wInbox, [cmd |-> "isready"])
  /\ UNCHANGED <<engineVars, wPosition, wSearch>>

\* handleMessage('readyok')
HandleReadyOk ==
  /\ wOutbox # <<>> /\ Head(wOutbox).type = "readyok"
  /\ wOutbox' = Tail(wOutbox)
  /\ isReady' = TRUE
  /\ UNCHANGED <<worker, initPromise, pendingEval, currentEval, evals, checkTimer,
                 timeoutTimer, stopsSent, stopSinceEval, wInbox, wPosition, wSearch>>

\* parseInfoLine(line) for "info depth <d> [score cp|mate <v>]"
parseInfoLine(cur, m) ==
  LET withDepth == [cur EXCEPT !.depth = Some(m.depth), !.srcs = @ \cup {m.pos}]
  IN  IF m.kind = "cp"
      THEN [withDepth EXCEPT !.score = Some(m.value), !.mate = None]
      ELSE IF m.kind = "mate"
      THEN [withDepth EXCEPT !.mate = Some(m.value),
                             !.score = Some(IF m.value > 0 THEN 10000 - m.value * 100
                                                           ELSE -10000 - m.value * 100)]
      ELSE withDepth

\* handleMessage('info depth ...') resolving the held promise as well.
HandleInfoSettles ==
  /\ wOutbox # <<>> /\ Head(wOutbox).type = "info"
  /\ wOutbox' = Tail(wOutbox)
  /\ currentEval' = parseInfoLine(currentEval, Head(wOutbox))
  /\ IF IsSome(pendingEval)
     THEN /\ evals' = [evals EXCEPT ![Val(pendingEval)] =
               [@ EXCEPT !.state = "resolved",
                         !.result = Some([score |-> IF IsSome(currentEval'.score)
                                                    THEN Val(currentEval'.score) ELSE 0,
                                          mate |-> currentEval'.mate, bestMove |-> None,
                                          depth |-> Head(wOutbox).depth]),
                         !.src = Some(Head(wOutbox).pos),
                         !.accSrc = currentEval'.srcs]]
          /\ pendingEval' = None
     ELSE UNCHANGED <<evals, pendingEval>>
  /\ UNCHANGED <<worker, isReady, initPromise, checkTimer,
                 timeoutTimer, stopsSent, stopSinceEval, wInbox, wPosition, wSearch>>

\* handleMessage('info depth ...')
HandleInfo ==
  /\ wOutbox # <<>> /\ Head(wOutbox).type = "info"
  /\ wOutbox' = Tail(wOutbox)
  /\ currentEval' = parseInfoLine(currentEval, Head(wOutbox))
  /\ UNCHANGED <<worker, isReady, initPromise, pendingEval, evals, checkTimer,
                 timeoutTimer, stopsSent, stopSinceEval, wInbox, wPosition, wSearch>>

OrElse(o, d) == IF IsSome(o) THEN Val(o) ELSE d

\* handleMessage('bestmove <move>'): resolves the held promise, if any.
HandleBestMove ==
  /\ wOutbox # <<>> /\ Head(wOutbox).type = "bestmove"
  /\ wOutbox' = Tail(wOutbox)
  /\ LET m == Head(wOutbox)
         bestMove == IF m.move = <<>> THEN None ELSE Some(m.move)
     IN  IF IsSome(pendingEval)
         THEN /\ evals' = [evals EXCEPT ![Val(pendingEval)] =
                   [@ EXCEPT !.state = "resolved",
                             !.result = Some(EvalResult(OrElse(currentEval.score, 0),
                                                        currentEval.mate, bestMove,
                                                        OrElse(currentEval.depth, 0))),
                             !.src = Some(m.pos),
                             !.accSrc = currentEval.srcs]]
              /\ pendingEval' = None
         ELSE UNCHANGED <<evals, pendingEval>>
  /\ UNCHANGED <<worker, isReady, initPromise, currentEval, checkTimer, timeoutTimer,
                 stopsSent, stopSinceEval, wInbox, wPosition, wSearch>>

(***************************************************************************)
(* The worker                                                              *)
(***************************************************************************)
WorkerReads(c) == wInbox # <<>> /\ Head(wInbox).cmd = c

WorkerUci ==
  /\ WorkerReads("uci") /\ wSearch = None /\ wOutbox = <<>>
  /\ wInbox' = Tail(wInbox)
  /\ wOutbox' = Append(wOutbox, [type |-> "uciok"])
  /\ UNCHANGED <<engineVars, wPosition, wSearch>>

WorkerIsReady ==
  /\ WorkerReads("isready") /\ wSearch = None /\ wOutbox = <<>>
  /\ wInbox' = Tail(wInbox)
  /\ wOutbox' = Append(wOutbox, [type |-> "readyok"])
  /\ UNCHANGED <<engineVars, wPosition, wSearch>>

WorkerPosition ==
  /\ WorkerReads("position") /\ wSearch = None
  /\ wInbox' = Tail(wInbox)
  /\ wPosition' = Head(wInbox).fen
  /\ UNCHANGED <<engineVars, wOutbox, wSearch>>

WorkerGo ==
  /\ WorkerReads("go") /\ wSearch = None
  /\ wInbox' = Tail(wInbox)
  /\ wSearch' = Some([pos |-> wPosition, depth |-> Head(wInbox).depth, sent |-> 0])
  /\ UNCHANGED <<engineVars, wOutbox, wPosition>>

\* "stop" ends the running search with its bestmove; without one it is ignored.
WorkerStop ==
  /\ WorkerReads("stop") /\ wOutbox = <<>>
  /\ wInbox' = Tail(wInbox)
  /\ IF IsSome(wSearch)
     THEN \E mv \in WorkerMoves :
            /\ wOutbox' = Append(wOutbox, [type |-> "bestmove", move |-> mv,
                                            pos |-> Val(wSearch).pos])
            /\ wSearch' = None
     ELSE UNCHANGED <<wOutbox, wSearch>>
  /\ UNCHANGED <<engineVars, wPosition>>

\* An info line of the running search, its score one of `scores`.
WorkerInfoOf(scores) ==
  /\ IsSome(wSearch) /\ Val(wSearch).sent < MaxInfo /\ wOutbox = <<>>
  /\ \E sc \in scores :
       wOutbox' = Append(wOutbox, [type |-> "info", depth |-> Val(wSearch).sent + 1,
                                   kind |-> sc[1], value |-> sc[2], pos |-> Val(wSearch).pos])
  /\ wSearch' = Some([Val(wSearch) EXCEPT !.sent = @ + 1])
  /\ UNCHANGED <<engineVars, wInbox, wPosition>>

WorkerInfo == WorkerInfoOf(InfoScores)

\* The bestmove line that ends the running search, its move one of `moves`.
WorkerBestMoveOf(moves) ==
  /\ IsSome(wSearch) /\ Val(wSearch).sent = MaxInfo /\ wOutbox = <<>>
  /\ \E mv \in moves :
       wOutbox' = Append(wOutbox, [type |-> "bestmove", move |-> mv, pos |-> Val(wSearch).pos])
  /\ wSearch' = None
  /\ UNCHANGED <<engineVars, wInbox, wPosition>>

WorkerBestMove == WorkerBestMoveOf(WorkerMoves)

EngineOther == <<fenVars, gradeVars, pageVars, feedbackVars>>

\* The positions a caller may ask for next: the names are interchangeable, so
\* the first call asks for fenA.
NextPositions == IF evals = <<>> THEN {"fenA"} ELSE EnginePositions

EngineNext ==
  \/ \E fen \in NextPositions :
        Len(evals) < MaxEvals /\ EvaluateFirst(fen, DefaultDepth) /\ UNCHANGED EngineOther
  \/ \E fen \in NextPositions :
        Len(evals) < MaxEvals /\ EvaluateWorkerThrows(fen, DefaultDepth) /\ UNCHANGED EngineOther
  \/ \E fen \in NextPositions :
        Len(evals) < MaxEvals /\ EvaluateAwaitInit(fen, DefaultDepth) /\ UNCHANGED EngineOther
  \/ \E fen \in NextPositions :
        Len(evals) < MaxEvals /\ EvaluateReady(fen, DefaultDepth) /\ UNCHANGED EngineOther
  \/ Stop /\ UNCHANGED EngineOther
  \/ CheckReady /\ UNCHANGED EngineOther
  \/ InitTimeout /\ UNCHANGED EngineOther
  \/ WorkerError /\ UNCHANGED EngineOther
  \/ HandleUciOk /\ UNCHANGED EngineOther
  \/ HandleReadyOk /\ UNCHANGED EngineOther
  \/ HandleInfo /\ UNCHANGED EngineOther
  \/ HandleBestMove /\ UNCHANGED EngineOther
  \/ WorkerUci /\ UNCHANGED EngineOther
  \/ WorkerIsReady /\ UNCHANGED EngineOther
  \/ WorkerPosition /\ UNCHANGED EngineOther
  \/ WorkerGo /\ UNCHANGED EngineOther
  \/ WorkerStop /\ UNCHANGED EngineOther
  \/ WorkerInfo /\ UNCHANGED EngineOther
  \/ WorkerBestMove /\ UNCHANGED EngineOther

(***************************************************************************)
(* Text.  Strings the program slices, splits or interpolates are sequences *)
(* of one-character strings.                                               *)
(***************************************************************************)
Digits == <<"0", "1", "2", "3", "4", "5", "6", "7", "8", "9">>

\* String(n) for n >= 0
RECURSIVE NumStr(_)
NumStr(n) == IF n < 10 THEN <<Digits[n + 1]>>
             ELSE NumStr(n \div 10) \o <<Digits[(n % 10) + 1]>>

\* parseInt(s, 10) for a string of digits
RECURSIVE ParseNum(_)
ParseNum(s) ==
  IF s = <<>> THEN 0
  ELSE ParseNum(SubSeq(s, 1, Len(s) - 1)) * 10
         + (CHOOSE d \in 0..9 : Digits[d + 1] = s[Len(s)])

\* s.slice(a, b)
Slice(s, a, b) == SubSeq(s, a + 1, Min(b, Len(s)))

\* s.includes(c) for a one-character c
Includes(s, c) == \E k \in 1..Len(s) : s[k] = c

RECURSIVE Concat(_)
Concat(parts) == IF parts = <<>> THEN <<>> ELSE Head(parts) \o Concat(Tail(parts))

Undefined == <<"u", "n", "d", "e", "f", "i", "n", "e", "d">>

(***************************************************************************)
(* The rules engine (chess.js), on a fragment of chess that is closed      *)
(* under its moves: from the initial position, the two e-pawns' double     *)
(* steps, the two queens' sorties along the diagonal they open and White's *)
(* a-pawn's single step.  A queen's sortie needs its pawn out of the way;  *)
(* no move of the fragment captures, checks or blocks another.             *)
(***************************************************************************)
ChessMoves ==
  { [san |-> <<"e", "4">>, from |-> <<"e", "2">>, to |-> <<"e", "4">>,
     color |-> "w", pawn |-> TRUE, needs |-> {}, ep |-> <<"e", "3">>],
    [san |-> <<"e", "5">>, from |-> <<"e", "7">>, to |-> <<"e", "5">>,
     color |-> "b", pawn |-> TRUE, needs |-> {}, ep |-> <<"e", "6">>],
    [san |-> <<"Q", "h", "5">>, from |-> <<"d", "1">>, to |-> <<"h", "5">>,
     color |-> "w", pawn |-> FALSE, needs |-> {<<"e", "4">>}, ep |-> <<"-">>],
    [san |-> <<"Q", "h", "4">>, from |-> <<"d", "8">>, to |-> <<"h", "4">>,
     color |-> "b", pawn |-> FALSE, needs |-> {<<"e", "5">>}, ep |-> <<"-">>],
    [san |-> <<"a", "3">>, from |-> <<"a", "2">>, to |-> <<"a", "3">>,
     color |-> "w", pawn |-> TRUE, needs |-> {}, ep |-> <<"-">>] }

\* The five pieces of the fragment, each named by the move it can make.
Pieces == << <<"e", "4">>, <<"e", "5">>, <<"Q", "h", "5">>, <<"Q", "h", "4">>,
             <<"a", "3">> >>
MoveOf(san) == CHOOSE m \in ChessMoves : m.san = san

\* new Chess()
NewGame == [moved |-> {}, turn |-> "w", ep |-> <<"-">>, half |-> 0, full |-> 1]

LegalMoves(chess) ==
  {m \in ChessMoves : /\ m.color = chess.turn
                      /\ m.san \notin chess.moved
                      /\ m.needs \subseteq chess.moved}

\* The position after the legal move m.
AfterMove(chess, m) ==
  [moved |-> chess.moved \cup {m.san},
   turn  |-> IF chess.turn = "w" THEN "b" ELSE "w",
   ep    |-> m.ep,
   half  |-> IF m.pawn THEN 0 ELSE chess.half + 1,
   full  |-> IF chess.turn = "b" THEN chess.full + 1 ELSE chess.full]

\* The text without the characters of `drop` at its end.
RECURSIVE DropTrailing(_, _)
DropTrailing(text, drop) ==
  IF text # <<>> /\ text[Len(text)] \in drop
  THEN DropTrailing(SubSeq(text, 1, Len(text) - 1), drop)
  ELSE text

\* text.replace(/=/, ''): the text without its first "=".
RECURSIVE DropFirstEquals(_)
DropFirstEquals(text) ==
  IF text = <<>> THEN text
  ELSE IF Head(text) = "=" THEN Tail(text)
  ELSE <<Head(text)>> \o DropFirstEquals(Tail(text))

\* The text without one character of `drop` at its end, if it ends in one.
DropLast(text, drop) ==
  IF text # <<>> /\ text[Len(text)] \in drop THEN SubSeq(text, 1, Len(text) - 1) ELSE text

\* strippedSan(move): move.replace(/=/, '').replace(/[+#]?[?!]*$/, '')
strippedSan(move) == DropLast(DropTrailing(DropFirstEquals(move), {"?", "!"}), {"+", "#"})

\* chess.move(san): the legal moves written san, annotations aside (none: the
\* move is rejected).
MovesBySan(chess, san) ==
  {m \in LegalMoves(chess) : strippedSan(m.san) = strippedSan(san)}

\* chess.move({ from, to, promotion })
MovesByUci(chess, from, to) == {m \in LegalMoves(chess) : m.from = from /\ m.to = to}

\* chess.fen(): the placement field lists the square of each piece.
ChessFen(chess) ==
  StrJoin(<< Concat([k \in 1..Len(Pieces) |->
                       IF Pieces[k] \in chess.moved THEN MoveOf(Pieces[k]).to
                                                    ELSE MoveOf(Pieces[k]).from]),
             <<chess.turn>>, <<"K", "Q", "k", "q">>, chess.ep,
             NumStr(chess.half), NumStr(chess.full) >>)

\* new Chess(fen)
ChessLoad(fen) ==
  LET f == StrSplit(fen)
  IN  [moved |-> {Pieces[k] : k \in {j \in 1..Len(Pieces) :
                      SubSeq(f[1], 2 * j - 1, 2 * j) = MoveOf(Pieces[j]).to}},
       turn  |-> f[2][1],
       ep    |-> f[4],
       half  |-> ParseNum(f[5]),
       full  |-> ParseNum(f[6])]

ColorName(c) == IF c = "w" THEN "white" ELSE "black"

\* The Error objects raised: a template text and its interpolated values.
InvalidMove(args) == [text |-> "Invalid move: ", args |-> args]
InvalidBlunderMove(san) == [text |-> "Invalid blunder move: ", args |-> <<san>>]
FetchFailed(id) == [text |-> "Failed to fetch puzzle ", args |-> <<id>>]

(***************************************************************************)
(* Puzzle reconstruction: processLichessPuzzle (lib/lichess.ts) and        *)
(* buildMovesList (the page script).  A function that can throw returns    *)
(* its value next to `thrown`, the Error raised, if any.                   *)
(***************************************************************************)
\* game.pgn.split(' ').filter(m => !m.includes('.') && m.length > 0)
PgnMoves(pgn) ==
  SelectSeq(StrSplit(pgn), LAMBDA m : ~Includes(m, ".") /\ Len(m) > 0)

\* for (let i = 0; i < pgnMoves.length - 1; i++) { ... }, from iteration i on.
RECURSIVE PreBlunderLoop(_, _, _, _)
PreBlunderLoop(pgnMoves, i, st, throws) ==
  IF ~(i < Len(pgnMoves) - 1) THEN st
  ELSE LET found == MovesBySan(st.chess, pgnMoves[i + 1])
       IN  IF found = {}
           THEN IF throws
                THEN [st EXCEPT !.thrown = Some(InvalidMove(<<pgnMoves[i + 1]>>))]
                ELSE st    \* console.error(...); break
           ELSE LET move  == CHOOSE m \in found : TRUE
                    chess == AfterMove(st.chess, move)
                IN  PreBlunderLoop(pgnMoves, i + 1,
                      [chess |-> chess,
                       gameMoves |-> Append(st.gameMoves,
                          [san |-> move.san, fen |-> ChessFen(chess),
                           color |-> ColorName(move.color),
                           from |-> move.from, to |-> move.to]),
                       opponentLastMove |->
                          IF i = Len(pgnMoves) - 2
                          THEN Some([from |-> move.from, to |-> move.to, san |-> move.san])
                          ELSE st.opponentLastMove,
                       thrown |-> None],
                      throws)

\* for (const uci of solutionUci) { ... } of processLichessPuzzle
RECURSIVE SolutionSanLoop(_, _, _)
SolutionSanLoop(solutionUci, st, throws) ==
  IF solutionUci = <<>> THEN st
  ELSE LET uci   == Head(solutionUci)
           from  == Slice(uci, 0, 2)
           to    == Slice(uci, 2, 4)
           found == MovesByUci(st.chess, from, to)
       IN  IF found = {}
           THEN IF throws
                THEN [st EXCEPT !.thrown = Some(InvalidMove(<<from, to>>))]
                ELSE SolutionSanLoop(Tail(solutionUci),
                       [st EXCEPT !.solutionSan = Append(@, uci)],  \* Fallback to UCI
                       throws)
           ELSE LET move == CHOOSE m \in found : TRUE
                IN  SolutionSanLoop(Tail(solutionUci),
                      [chess |-> AfterMove(st.chess, move),
                       solutionSan |-> Append(st.solutionSan, move.san),
                       thrown |-> None],
                      throws)

processLichessPuzzle(response, throws) ==
  LET pgnMoves == PgnMoves(response.game.pgn)
      pre == PreBlunderLoop(pgnMoves, 0,
               [chess |-> NewGame, gameMoves |-> <<>>, opponentLastMove |-> None,
                thrown |-> None], throws)
      preFen == ChessFen(pre.chess)
      blunderSanFromPgn == IF pgnMoves = <<>> THEN Undefined ELSE pgnMoves[Len(pgnMoves)]
      found == MovesBySan(pre.chess, blunderSanFromPgn)
      blunderMoveObj == CHOOSE m \in found : TRUE
      afterBlunder == AfterMove(pre.chess, blunderMoveObj)
      sol == SolutionSanLoop(response.puzzle.solution,
               [chess |-> afterBlunder, solutionSan |-> <<>>, thrown |-> None], throws)
  IN  IF IsSome(pre.thrown) THEN [value |-> None, thrown |-> pre.thrown]
      ELSE IF found = {}
      THEN [value |-> None,
            thrown |-> Some(IF throws THEN InvalidMove(<<blunderSanFromPgn>>)
                                      ELSE InvalidBlunderMove(blunderSanFromPgn))]
      ELSE IF IsSome(sol.thrown) THEN [value |-> None, thrown |-> sol.thrown]
      ELSE [value |-> Some(
              [id |-> response.puzzle.id,
               fen |-> ChessFen(afterBlunder),
               preFen |-> preFen,
               blunderUci |-> blunderMoveObj.from \o blunderMoveObj.to,
               blunderSan |-> blunderMoveObj.san,
               solutionUci |-> response.puzzle.solution,
               solutionSan |-> sol.solutionSan,
               opponentLastMove |-> pre.opponentLastMove,
               gameMoves |-> pre.gameMoves,
               rawResponse |-> response]),
            thrown |-> None]

\* for (const uci of p.solutionUci) { ... } of buildMovesList
RECURSIVE SolutionMovesLoop(_, _, _)
SolutionMovesLoop(solutionUci, st, throws) ==
  IF solutionUci = <<>> THEN st
  ELSE LET uci   == Head(solutionUci)
           from  == Slice(uci, 0, 2)
           to    == Slice(uci, 2, 4)
           found == MovesByUci(st.chess, from, to)
       IN  IF found = {}
           THEN IF throws
                THEN [st EXCEPT !.thrown = Some(InvalidMove(<<from, to>>))]
                ELSE SolutionMovesLoop(Tail(solutionUci), st, throws)
           ELSE LET move  == CHOOSE m \in found : TRUE
                    chess == AfterMove(st.chess, move)
                IN  SolutionMovesLoop(Tail(solutionUci),
                      [chess |-> chess,
                       moves |-> Append(st.moves,
                          [san |-> move.san, fen |-> ChessFen(chess),
                           color |-> ColorName(move.color), from |-> from, to |-> to]),
                       thrown |-> None],
                      throws)

\* buildMovesList without the blunder's own entry.
buildMovesListNoBlunder(p, before, throws) ==
  LET chess0 == ChessLoad(p.preFen)
      found  == MovesByUci(chess0, Slice(p.blunderUci, 0, 2), Slice(p.blunderUci, 2, 4))
      chess1 == IF found = {} THEN chess0 ELSE AfterMove(chess0, CHOOSE m \in found : TRUE)
      sol    == SolutionMovesLoop(p.solutionUci,
                  [chess |-> chess1, moves |-> p.gameMoves, thrown |-> None], throws)
  IN  [blunderMoveIndex |-> Len(p.gameMoves),
       allMoves |-> IF IsSome(sol.thrown) THEN before ELSE sol.moves,
       thrown |-> sol.thrown]

\* buildMovesList(p): the values it leaves in blunderMoveIndex and allMoves
\* (allMoves is assigned last, so it keeps `before` when a replay throws).
buildMovesList(p, before, throws) ==
  LET blunderFrom == Slice(p.blunderUci, 0, 2)
      blunderTo   == Slice(p.blunderUci, 2, 4)
      chess0      == ChessLoad(p.preFen)
      found       == MovesByUci(chess0, blunderFrom, blunderTo)
      blunderMove == CHOOSE m \in found : TRUE
      chess1      == AfterMove(chess0, blunderMove)
      start       == IF found = {}
                     THEN [chess |-> chess0, moves |-> p.gameMoves, thrown |-> None]
                     ELSE [chess |-> chess1,
                           moves |-> Append(p.gameMoves,
                              [san |-> blunderMove.san, fen |-> ChessFen(chess1),
                               color |-> ColorName(blunderMove.color),
                               from |-> blunderFrom, to |-> blunderTo]),
                           thrown |-> None]
      sol         == SolutionMovesLoop(p.solutionUci, start, throws)
      thrown      == IF found = {} /\ throws
                     THEN Some(InvalidMove(<<blunderFrom, blunderTo>>))
                     ELSE sol.thrown
  IN  [blunderMoveIndex |-> Len(p.gameMoves),
       allMoves |-> IF IsSome(thrown) THEN before ELSE sol.moves,
       thrown |-> thrown]

(***************************************************************************)
(* The rating-guess page (routes/elo/[id]).                                *)
(***************************************************************************)
MaxPuzzles == 3          \* puzzles loaded per run
DefaultEloGuess == 1500  \* let eloGuess = $state(1500)

\* getBlunderingPlayer(puzzle): the player who made the blunder, i.e. the
\* one whose colour is to move before it; null without such a player.
getBlunderingPlayer(p) ==
  LET turn == StrSplit(p.preFen)[2]
      mine == SelectSeq(p.rawResponse.game.players,
                        LAMBDA pl : pl.color = ColorName(turn[1]))
  IN  IF mine = <<>> THEN None ELSE Some(Head(mine))

blunderingPlayer == IF IsSome(puzzle) THEN getBlunderingPlayer(Val(puzzle)) ELSE None

\* The puzzle container is rendered: {#if loading} {:else if error} {:else if puzzle}
Rendered == ~loading /\ error = None /\ IsSome(puzzle)

RemoveAt(s, k) == SubSeq(s, 1, k - 1) \o SubSeq(s, k + 1, Len(s))

\* What onMount reads from localStorage (stats.x || 0).
StoredOr0(field) == IF IsSome(storage) THEN Val(storage)[field] ELSE 0

\* The page after construction and onMount.
PageInitExceptGuess ==
  /\ loadedPuzzleId = None
  /\ puzzle = None
  /\ loading = TRUE
  /\ error = None
  /\ currentFen = <<>>
  /\ phase = "animating"
  /\ allMoves = <<>>
  /\ currentMoveIndex = -1
  /\ blunderMoveIndex = -1
  /\ isAnimating = FALSE
  /\ actualElo = 0
  /\ difference = 0
  /\ bestMoveEval = None
  /\ userMoveEval = None
  /\ userMoveSan = None
  /\ bestMoveSan = None
  /\ movePoints = 0
  /\ totalGuesses = StoredOr0("totalGuesses")
  /\ totalDifference = StoredOr0("totalDifference")
  /\ streak = 0
  /\ bestStreak = StoredOr0("bestStreak")
  /\ totalMovePoints = StoredOr0("totalMovePoints")
  /\ displayLastMove = None
  /\ fetches = <<>>
  /\ randomFetches = 0
  /\ timers = <<>>
  /\ evaluatingMove = FALSE
  /\ conts = <<>>

PageInit == PageInitExceptGuess /\ eloGuess = DefaultEloGuess

\* A load tears the session down: what still waits for the engine was asked
\* for by a session that is no more.  (`stale` is not a field of the program.)
TornDown(cs) == [k \in 1..Len(cs) |-> [cs[k] EXCEPT !.stale = TRUE]]

\* The callback or await registered on the promise of evaluate() call `eval`.
Continuation(eval, kind, uci) == [eval |-> eval, kind |-> kind, uci |-> uci, stale |-> FALSE]

\* loadPuzzle(id) up to its await.
LoadPuzzleStart(id) ==
  /\ loading' = TRUE
  /\ error' = None
  /\ phase' = "animating"
  /\ isAnimating' = FALSE
  /\ eloGuess' = DefaultEloGuess
  /\ displayLastMove' = None
  /\ allMoves' = <<>>
  /\ currentMoveIndex' = -1
  /\ blunderMoveIndex' = -1
  /\ bestMoveEval' = None
  /\ userMoveEval' = None
  /\ userMoveSan' = None
  /\ bestMoveSan' = None
  /\ movePoints' = 0
  /\ fetches' = Append(fetches, id)
  /\ conts' = TornDown(conts)
  /\ UNCHANGED <<puzzleId, puzzle, currentFen, randomFetches, timers, evaluatingMove,
                 actualElo, difference, totalGuesses, totalDifference, streak,
                 bestStreak, totalMovePoints, worldVars, engineVars, workerVars>>

\* $effect: the route's puzzle id differs from the one loaded.
EffectLoad ==
  /\ loadedPuzzleId # Some(puzzleId)
  /\ loadedPuzzleId' = Some(puzzleId)
  /\ LoadPuzzleStart(puzzleId)

\* const puzzleId = $derived($page.params.id!): the route parameter changes
\* under the mounted page (the browser's back and forward buttons, a link to
\* another puzzle); nothing else of the page's state is touched.
RouteChange ==
  /\ \E id \in DOMAIN provider \ {puzzleId} : puzzleId' = id
  /\ UNCHANGED <<loadedPuzzleId, puzzle, loading, error, currentFen, phase, allMoves,
                 currentMoveIndex, blunderMoveIndex, isAnimating, displayLastMove,
                 fetches, randomFetches, timers, guessVars, betterVars,
                 chessThrows, provider, storage, engineVars, workerVars>>

\* The "Try Again" button of the error panel.
RetryLoad ==
  /\ ~loading /\ IsSome(error)
  /\ LoadPuzzleStart(puzzleId)
  /\ UNCHANGED loadedPuzzleId

\* evaluatePosition(fen, depth) = getEngine().evaluate(fen, depth)
evaluatePosition(fen, depth) ==
  \/ EvaluateFirst(fen, depth)
  \/ EvaluateWorkerThrows(fen, depth)
  \/ EvaluateAwaitInit(fen, depth)
  \/ EvaluateReady(fen, depth)

\* loadPuzzle(id) from its await on: the response arrived.
LoadPuzzleFetched ==
  \E k \in 1..Len(fetches) :
    LET processed == processLichessPuzzle(provider[fetches[k]], chessThrows)
        p     == Val(processed.value)
        built == buildMovesList(p, allMoves, chessThrows)
        startIndex == IF built.blunderMoveIndex > 0 THEN built.blunderMoveIndex - 1 ELSE 0
    IN  /\ fetches' = RemoveAt(fetches, k)
        /\ loading' = FALSE
        /\ IF IsSome(processed.thrown)
           THEN /\ error' = processed.thrown
                /\ UNCHANGED <<puzzle, blunderMoveIndex, allMoves, currentMoveIndex,
                               currentFen, displayLastMove, timers, conts,
                               engineVars, workerVars>>
           ELSE /\ puzzle' = Some(p)
                /\ blunderMoveIndex' = built.blunderMoveIndex
                /\ allMoves' = built.allMoves
                /\ IF IsSome(built.thrown)
                   THEN /\ error' = built.thrown
                        /\ UNCHANGED <<currentMoveIndex, currentFen, displayLastMove,
                                       timers, conts, engineVars, workerVars>>
                   ELSE /\ currentMoveIndex' = startIndex
                        /\ IF startIndex < Len(built.allMoves)
                           THEN /\ currentFen' = built.allMoves[startIndex + 1].fen
                                /\ displayLastMove' =
                                     Some([from |-> built.allMoves[startIndex + 1].from,
                                           to   |-> built.allMoves[startIndex + 1].to])
                           ELSE /\ currentFen' = p.preFen
                                /\ UNCHANGED displayLastMove
                        /\ evaluatePosition(p.preFen, DefaultDepth)
                        /\ conts' = Append(conts,
                                      Continuation(Len(evals) + 1, "bestMoveEval", <<>>))
                        /\ timers' = Append(timers, [fn |-> "startAnimation", arg |-> 0])
                        /\ UNCHANGED error
        /\ UNCHANGED <<puzzleId, loadedPuzzleId, phase, isAnimating, randomFetches,
                       guessVars, bestMoveEval, userMoveEval, userMoveSan, bestMoveSan,
                       movePoints, evaluatingMove, worldVars>>

\* loadPuzzle(id) from its await on: the request failed (!response.ok).
LoadPuzzleFetchFails ==
  \E k \in 1..Len(fetches) :
    /\ fetches' = RemoveAt(fetches, k)
    /\ error' = Some(FetchFailed(fetches[k]))
    /\ loading' = FALSE
    /\ UNCHANGED <<puzzleId, loadedPuzzleId, puzzle, currentFen, phase, allMoves,
                   currentMoveIndex, blunderMoveIndex, isAnimating, displayLastMove,
                   randomFetches, timers, guessVars, betterVars, worldVars,
                   engineVars, workerVars>>

\* A playback that ends without opening the guess: what C31 excludes.
finishAnimationInPlace == isAnimating' = FALSE /\ phase' = phase

\* finishAnimation(), as the primed values of isAnimating and phase
finishAnimation == isAnimating' = FALSE /\ phase' = "guessing"

\* setTimeout(startAnimation, 500) fires.
StartAnimation ==
  \E k \in 1..Len(timers) :
    /\ timers[k].fn = "startAnimation"
    /\ IF puzzle = None \/ isAnimating
       THEN /\ timers' = RemoveAt(timers, k)
            /\ UNCHANGED <<isAnimating, currentMoveIndex>>
       ELSE /\ isAnimating' = TRUE
            /\ currentMoveIndex' = IF blunderMoveIndex > 0 THEN blunderMoveIndex - 1 ELSE 0
            /\ timers' = Append(RemoveAt(timers, k),
                                [fn |-> "animateToIndex", arg |-> blunderMoveIndex])
    /\ UNCHANGED <<puzzleId, loadedPuzzleId, puzzle, loading, error, currentFen, phase,
                   allMoves, blunderMoveIndex, displayLastMove, fetches, randomFetches,
                   guessVars, betterVars, worldVars, engineVars, workerVars>>

\* setTimeout(() => animateToIndex(targetIndex), delay) fires.
AnimateToIndex ==
  \E k \in 1..Len(timers) :
    /\ timers[k].fn = "animateToIndex"
    /\ LET targetIndex == timers[k].arg
           rest == RemoveAt(timers, k)
       IN  IF puzzle = None \/ targetIndex >= Len(allMoves)
           THEN /\ finishAnimation
                /\ timers' = rest
                /\ UNCHANGED <<currentMoveIndex, currentFen, displayLastMove>>
           ELSE IF targetIndex < 0
           THEN \* allMoves[targetIndex] is undefined: move.fen throws
                /\ currentMoveIndex' = targetIndex
                /\ timers' = rest
                /\ UNCHANGED <<isAnimating, phase, currentFen, displayLastMove>>
           ELSE /\ currentMoveIndex' = targetIndex
                /\ currentFen' = allMoves[targetIndex + 1].fen
                /\ displayLastMove' = Some([from |-> allMoves[targetIndex + 1].from,
                                            to   |-> allMoves[targetIndex + 1].to])
                /\ IF targetIndex < Len(allMoves) - 1 /\ targetIndex >= blunderMoveIndex
                   THEN /\ timers' = Append(rest, [fn |-> "animateToIndex",
                                                   arg |-> targetIndex + 1])
                        /\ UNCHANGED <<isAnimating, phase>>
                   ELSE /\ finishAnimation
                        /\ timers' = rest
    /\ UNCHANGED <<puzzleId, loadedPuzzleId, puzzle, loading, error, allMoves,
                   blunderMoveIndex, fetches, randomFetches,
                   guessVars, betterVars, worldVars, engineVars, workerVars>>

\* Navigable range: from one move before the blunder to the end of the solution
minNavigableIndex == IF blunderMoveIndex > 0 THEN blunderMoveIndex - 1 ELSE 0
maxNavigableIndex == Len(allMoves) - 1

\* A MoveHistory without a lower limit: what C29 excludes.
canNavigateUpTo(index) == ~(maxNavigableIndex # -1 /\ index > maxNavigableIndex)

\* MoveHistory.canNavigateTo(index), with the range the rating-guess page
\* passes; -1 stands for 'no limit'.
canNavigateTo(index) ==
  /\ ~(minNavigableIndex # -1 /\ index < minNavigableIndex)
  /\ ~(maxNavigableIndex # -1 /\ index > maxNavigableIndex)

\* A navigation that drops the moves after the one it shows: what C35
\* excludes.
handleHistoryNavigateCutting(index) ==
  /\ ~isAnimating /\ IsSome(puzzle) /\ phase # "findingBetterMove"
  /\ currentMoveIndex' = index
  /\ IF index >= 0 /\ index < Len(allMoves)
     THEN /\ currentFen' = allMoves[index + 1].fen
          /\ displayLastMove' = Some([from |-> allMoves[index + 1].from,
                                      to   |-> allMoves[index + 1].to])
     ELSE UNCHANGED <<currentFen, displayLastMove>>
  /\ allMoves' = SubSeq(allMoves, 1, index + 1)
  /\ UNCHANGED <<puzzleId, loadedPuzzleId, puzzle, loading, error, phase,
                 blunderMoveIndex, isAnimating, fetches, randomFetches, timers,
                 guessVars, betterVars, worldVars, engineVars, workerVars>>

\* handleHistoryNavigate(index) of the rating-guess page, past its early return
handleHistoryNavigate(index) ==
  /\ ~isAnimating /\ IsSome(puzzle) /\ phase # "findingBetterMove"
  /\ currentMoveIndex' = index
  /\ IF index >= 0 /\ index < Len(allMoves)
     THEN /\ currentFen' = allMoves[index + 1].fen
          /\ displayLastMove' = Some([from |-> allMoves[index + 1].from,
                                      to   |-> allMoves[index + 1].to])
     ELSE UNCHANGED <<currentFen, displayLastMove>>
  /\ UNCHANGED <<puzzleId, loadedPuzzleId, puzzle, loading, error, phase, allMoves,
                 blunderMoveIndex, isAnimating, fetches, randomFetches, timers,
                 guessVars, betterVars, worldVars, engineVars, workerVars>>

\* MoveHistory.handleMoveClick(index): a click on a move of the list.
HistoryClick ==
  /\ Rendered
  /\ \E index \in 0..(Len(allMoves) - 1) :
       canNavigateTo(index) /\ handleHistoryNavigate(index)

\* MoveHistory.handleKeydown(e): ArrowLeft / ArrowUp, ArrowRight / ArrowDown.
HistoryKey ==
  /\ Rendered
  /\ \/ /\ currentMoveIndex - 1 >= -1
        /\ canNavigateTo(currentMoveIndex - 1)
        /\ handleHistoryNavigate(currentMoveIndex - 1)
     \/ /\ currentMoveIndex + 1 < Len(allMoves)
        /\ canNavigateTo(currentMoveIndex + 1)
        /\ handleHistoryNavigate(currentMoveIndex + 1)

\* The rating slider: min 400, max 2800, step 25, bound to eloGuess.
SliderValues == {v \in 400..2800 : (v - 400) % 25 = 0}

SetEloGuess(v) ==
  /\ Rendered /\ phase = "guessing"
  /\ eloGuess' = v
  /\ UNCHANGED <<actualElo, difference, totalGuesses, totalDifference, streak,
                 bestStreak, totalMovePoints, loadVars, betterVars, worldVars,
                 engineVars, workerVars>>

\* saveStats(), as the value written to localStorage
SavedStats(guesses, diff, best, points) ==
  Some([totalGuesses |-> guesses, totalDifference |-> diff,
        bestStreak |-> best, totalMovePoints |-> points])

\* A grading that is not the program's: a difference of exactly 200 misses.
StreakAfterStrict(diff, prior) == IF diff < 200 THEN prior + 1 ELSE 0

\* streak and bestStreak after `if (difference <= 200) { ... } else { ... }`
StreakAfter(diff, prior) == IF diff <= 200 THEN prior + 1 ELSE 0
BestAfter(diff, prior, best) ==
  IF diff <= 200 /\ prior + 1 > best THEN prior + 1 ELSE best

\* A "Submit Guess" button that stays on the page after the guess: what C32
\* excludes.
SubmitGuessAgain ==
  /\ Rendered /\ phase \in {"guessing", "revealed"}
  /\ IF puzzle = None \/ blunderingPlayer = None
     THEN UNCHANGED <<actualElo, difference, totalGuesses, totalDifference, streak,
                      bestStreak, storage, phase>>
     ELSE LET actual == Val(blunderingPlayer).rating
              diff   == Abs(eloGuess - actual)
          IN  /\ actualElo' = actual
              /\ difference' = diff
              /\ totalGuesses' = totalGuesses + 1
              /\ totalDifference' = totalDifference + diff
              /\ streak' = StreakAfter(diff, streak)
              /\ bestStreak' = BestAfter(diff, streak, bestStreak)
              /\ storage' = SavedStats(totalGuesses + 1, totalDifference + diff,
                                       BestAfter(diff, streak, bestStreak), totalMovePoints)
              /\ phase' = "revealed"
  /\ UNCHANGED <<eloGuess, totalMovePoints, chessThrows, provider,
                 puzzleId, loadedPuzzleId, puzzle, loading, error, currentFen,
                 allMoves, currentMoveIndex, blunderMoveIndex, isAnimating,
                 displayLastMove, fetches, randomFetches, timers,
                 betterVars, engineVars, workerVars>>

\* submitGuess(): the "Submit Guess" button
SubmitGuess ==
  /\ Rendered /\ phase = "guessing"
  /\ IF puzzle = None \/ blunderingPlayer = None
     THEN UNCHANGED <<actualElo, difference, totalGuesses, totalDifference, streak,
                      bestStreak, storage, phase>>
     ELSE LET actual == Val(blunderingPlayer).rating
              diff   == Abs(eloGuess - actual)
          IN  /\ actualElo' = actual
              /\ difference' = diff
              /\ totalGuesses' = totalGuesses + 1
              /\ totalDifference' = totalDifference + diff
              /\ streak' = StreakAfter(diff, streak)
              /\ bestStreak' = BestAfter(diff, streak, bestStreak)
              /\ storage' = SavedStats(totalGuesses + 1, totalDifference + diff,
                                       BestAfter(diff, streak, bestStreak), totalMovePoints)
              /\ phase' = "revealed"
  /\ UNCHANGED <<eloGuess, totalMovePoints, chessThrows, provider,
                 puzzleId, loadedPuzzleId, puzzle, loading, error, currentFen,
                 allMoves, currentMoveIndex, blunderMoveIndex, isAnimating,
                 displayLastMove, fetches, randomFetches, timers,
                 betterVars, engineVars, workerVars>>

\* startFindingBetterMove(): the "Find a Better Move" button
StartFindingBetterMove ==
  /\ Rendered /\ phase = "revealed"
  /\ phase' = "findingBetterMove"
  /\ currentFen' = Val(puzzle).preFen
  /\ displayLastMove' =
       IF IsSome(Val(puzzle).opponentLastMove)
       THEN Some([from |-> Val(Val(puzzle).opponentLastMove).from,
                  to   |-> Val(Val(puzzle).opponentLastMove).to])
       ELSE None
  /\ UNCHANGED <<puzzleId, loadedPuzzleId, puzzle, loading, error, allMoves,
                 currentMoveIndex, blunderMoveIndex, isAnimating, fetches,
                 randomFetches, timers, guessVars, betterVars, worldVars,
                 engineVars, workerVars>>

\* skipBetterMove(): the "Skip" buttons
SkipBetterMove ==
  /\ Rendered /\ phase \in {"revealed", "findingBetterMove"}
  /\ phase' = "finalResult"
  /\ UNCHANGED <<puzzleId, loadedPuzzleId, puzzle, loading, error, currentFen, allMoves,
                 currentMoveIndex, blunderMoveIndex, isAnimating, displayLastMove,
                 fetches, randomFetches, timers, guessVars, betterVars, worldVars,
                 engineVars, workerVars>>

\* The continuations whose evaluate() promise has reached `state`.
Settled(kind, state) ==
  {k \in 1..Len(conts) : conts[k].kind = kind /\ evals[conts[k].eval].state = state}

\* evaluatePosition(puzzle.preFen, 15).then((evalResult) => { ... })
BestMoveEvalThen ==
  \E k \in Settled("bestMoveEval", "resolved") :
    LET evalResult == Val(evals[conts[k].eval].result)
        chess == ChessLoad(Val(puzzle).preFen)
        found == IF IsSome(evalResult.bestMove)
                 THEN MovesByUci(chess, Slice(Val(evalResult.bestMove), 0, 2),
                                        Slice(Val(evalResult.bestMove), 2, 4))
                 ELSE {}
    IN  /\ bestMoveEval' = Some(evalResult)
        /\ bestMoveSan' = IF found # {} THEN Some((CHOOSE m \in found : TRUE).san)
                          ELSE bestMoveSan    \* null, or the throw is caught
        /\ conts' = RemoveAt(conts, k)
        /\ UNCHANGED <<userMoveEval, userMoveSan, movePoints, evaluatingMove,
                       loadVars, guessVars, worldVars, engineVars, workerVars>>

\* ... .catch(console.error)
BestMoveEvalCatch ==
  \E k \in Settled("bestMoveEval", "rejected") :
    /\ conts' = RemoveAt(conts, k)
    /\ UNCHANGED <<bestMoveEval, userMoveEval, userMoveSan, bestMoveSan, movePoints,
                   evaluatingMove, loadVars, guessVars, worldVars, engineVars, workerVars>>

\* handleBetterMove(move) up to its await: a move made on the board, which is
\* interactive while phase === 'findingBetterMove' && !evaluatingMove.
HandleBetterMove ==
  /\ Rendered /\ phase = "findingBetterMove" /\ ~evaluatingMove
  /\ \E m \in LegalMoves(ChessLoad(currentFen)) :
       LET fen == ChessFen(AfterMove(ChessLoad(currentFen), m))
       IN  /\ userMoveSan' = Some(m.san)
           /\ displayLastMove' = Some([from |-> m.from, to |-> m.to])
           /\ currentFen' = fen
           /\ evaluatingMove' = TRUE
           /\ evaluatePosition(fen, DefaultDepth)
           /\ conts' = Append(conts, Continuation(Len(evals) + 1, "userMoveEval",
                                                   m.from \o m.to))
  /\ UNCHANGED <<puzzleId, loadedPuzzleId, puzzle, loading, error, phase, allMoves,
                 currentMoveIndex, blunderMoveIndex, isAnimating, fetches, randomFetches,
                 timers, bestMoveEval, userMoveEval, bestMoveSan, movePoints,
                 guessVars, worldVars>>

\* handleBetterMove from its await on, without the saveStats() call.
BetterMoveEvaluatedUnsaved ==
  \E k \in Settled("userMoveEval", "resolved") :
    LET evalResult == evals[conts[k].eval].result
        points     == calculateMovePoints(evalResult, bestMoveEval, conts[k].uci)
    IN  /\ userMoveEval' = evalResult
        /\ movePoints' = points
        /\ totalMovePoints' = totalMovePoints + points
        /\ phase' = "finalResult"
        /\ evaluatingMove' = FALSE
        /\ conts' = RemoveAt(conts, k)
        /\ UNCHANGED <<puzzleId, loadedPuzzleId, puzzle, loading, error, currentFen,
                       allMoves, currentMoveIndex, blunderMoveIndex, isAnimating,
                       displayLastMove, fetches, randomFetches, timers,
                       eloGuess, actualElo, difference, totalGuesses, totalDifference,
                       streak, bestStreak, bestMoveEval, userMoveSan, bestMoveSan,
                       worldVars, engineVars, workerVars>>

\* handleBetterMove from its await on: the evaluation arrived.
BetterMoveEvaluated ==
  \E k \in Settled("userMoveEval", "resolved") :
    LET evalResult == evals[conts[k].eval].result
        points     == calculateMovePoints(evalResult, bestMoveEval, conts[k].uci)
    IN  /\ userMoveEval' = evalResult
        /\ movePoints' = points
        /\ totalMovePoints' = totalMovePoints + points
        /\ storage' = SavedStats(totalGuesses, totalDifference, bestStreak,
                                 totalMovePoints + points)
        /\ phase' = "finalResult"
        /\ evaluatingMove' = FALSE
        /\ conts' = RemoveAt(conts, k)
        /\ UNCHANGED <<puzzleId, loadedPuzzleId, puzzle, loading, error, currentFen,
                       allMoves, currentMoveIndex, blunderMoveIndex, isAnimating,
                       displayLastMove, fetches, randomFetches, timers,
                       eloGuess, actualElo, difference, totalGuesses, totalDifference,
                       streak, bestStreak, bestMoveEval, userMoveSan, bestMoveSan,
                       chessThrows, provider, engineVars, workerVars>>

\* handleBetterMove from its await on: the evaluation failed (catch, finally).
BetterMoveFails ==
  \E k \in Settled("userMoveEval", "rejected") :
    /\ phase' = "finalResult"
    /\ evaluatingMove' = FALSE
    /\ conts' = RemoveAt(conts, k)
    /\ UNCHANGED <<puzzleId, loadedPuzzleId, puzzle, loading, error, currentFen,
                   allMoves, currentMoveIndex, blunderMoveIndex, isAnimating,
                   displayLastMove, fetches, randomFetches, timers,
                   guessVars, bestMoveEval, userMoveEval, userMoveSan, bestMoveSan,
                   movePoints, worldVars, engineVars, workerVars>>

\* loadRandomPuzzle() up to its await: the "Next Puzzle" button
LoadRandomPuzzle ==
  /\ Rendered /\ phase = "finalResult"
  /\ loading' = TRUE
  /\ error' = None
  /\ randomFetches' = randomFetches + 1
  /\ UNCHANGED <<puzzleId, loadedPuzzleId, puzzle, currentFen, phase, allMoves,
                 currentMoveIndex, blunderMoveIndex, isAnimating, displayLastMove,
                 fetches, timers, guessVars, betterVars, worldVars,
                 engineVars, workerVars>>

\* loadRandomPuzzle() from its await on: the API served the record of `id`.
RandomPuzzleFetched(id) ==
  /\ randomFetches > 0
  /\ randomFetches' = randomFetches - 1
  /\ LET processed == processLichessPuzzle(provider[id], chessThrows)
     IN  IF IsSome(processed.thrown)
         THEN /\ error' = processed.thrown
              /\ loading' = FALSE
              /\ UNCHANGED puzzleId
         ELSE /\ puzzleId' = Val(processed.value).id     \* goto(`/elo/${id}`)
              /\ UNCHANGED <<error, loading>>
  /\ UNCHANGED <<loadedPuzzleId, puzzle, currentFen, phase, allMoves,
                 currentMoveIndex, blunderMoveIndex, isAnimating, displayLastMove,
                 fetches, timers, guessVars, betterVars, worldVars,
                 engineVars, workerVars>>

\* loadRandomPuzzle() from its await on: the request failed.
RandomPuzzleFetchFails ==
  /\ randomFetches > 0
  /\ randomFetches' = randomFetches - 1
  /\ error' = Some([text |-> "Failed to fetch puzzle: ", args |-> <<>>])
  /\ loading' = FALSE
  /\ UNCHANGED <<puzzleId, loadedPuzzleId, puzzle, currentFen, phase, allMoves,
                 currentMoveIndex, blunderMoveIndex, isAnimating, displayLastMove,
                 fetches, timers, guessVars, betterVars, worldVars,
                 engineVars, workerVars>>

(***************************************************************************)
(* The records the Lichess API serves.                                     *)
(***************************************************************************)
MaxPgn == 3        \* tokens of a served move list
MaxSolution == 2   \* moves of a served solution

P1 == <<"p", "1">>
P2 == <<"p", "2">>

SanE4  == <<"e", "4">>
SanE5  == <<"e", "5">>
SanQh5 == <<"Q", "h", "5">>

\* Tokens of a move list: moves of the fragment, a move no position allows,
\* and a move number.
PgnTokens == {SanE4, SanE5, SanQh5, <<"Z", "z", "9">>, <<"1", ".">>}
SolutionTokens == {<<"e", "7", "e", "5">>, <<"d", "1", "h", "5">>,
                   <<"d", "8", "h", "4">>, <<"z", "9", "z", "9">>}

SeqsUpTo(S, n) == UNION {[1..k -> S] : k \in 0..n}

Players(white, black) ==
  << [color |-> "white", rating |-> white], [color |-> "black", rating |-> black] >>

RawRecord(id, tokens, solution, players) ==
  [game   |-> [players |-> players, pgn |-> StrJoin(tokens)],
   puzzle |-> [id |-> id, solution |-> solution]]

\* Any move list and solution over the tokens, legal or not.
BuildRecords ==
  {RawRecord(P1, tokens, solution, Players(1500, 1400)) :
     tokens \in SeqsUpTo(PgnTokens, MaxPgn),
     solution \in SeqsUpTo(SolutionTokens, MaxSolution)}

\* Two well-formed puzzles: in p1 White (rated 1200 or 1500) blunders 2.Qh5??,
\* in p2 Black (rated 1299) blunders 1...e5.
GuessProvider(w) ==
  [id \in {P1, P2} |->
      IF id = P1
      THEN RawRecord(P1, <<SanE4, SanE5, SanQh5 \o <<"?", "?">> >>,
                     << <<"d", "8", "h", "4">> >>,
                     Players(w, 1800))
      ELSE RawRecord(P2, <<SanE4, SanE5>>, << <<"d", "1", "h", "5">> >>,
                     Players(2000, 1299))]

GuessProviders == {GuessProvider(w) : w \in {1200, 1500}}


\* A provider whose p1 has the blunder as the game's first move 1.e4??
\* (answered by 1...e5); its p2 is the game of 2.Qh5??.
FirstMoveProvider ==
  [id \in {P1, P2} |->
      IF id = P1
      THEN RawRecord(P1, <<SanE4 \o <<"?", "?">> >>, << <<"e", "7", "e", "5">> >>,
                     Players(1500, 1800))
      ELSE RawRecord(P2, <<SanE4, SanE5, SanQh5>>, << <<"d", "8", "h", "4">> >>,
                     Players(1500, 1800))]

TimelineProviders == GuessProviders \cup {FirstMoveProvider}


\* A provider whose p1 ends with the blunder 2.Qh5?? and has no solution
\* move; its p2 is the game of 1...e5??.
NoSolutionProvider ==
  [id \in {P1, P2} |->
      IF id = P1
      THEN RawRecord(P1, <<SanE4, SanE5, SanQh5>>, <<>>, Players(1500, 1800))
      ELSE RawRecord(P2, <<SanE4, SanE5>>, << <<"d", "1", "h", "5">> >>,
                     Players(1500, 1299))]

PlaybackProviders == {GuessProvider(1500), FirstMoveProvider, NoSolutionProvider}

GuessChoices == {1300, 1500, 1900}
StoredStats == {None, SavedStats(7, 900, 5, 160)}

\* The find-the-blunder page is not open.
BlunderIdle ==
  /\ solved = FALSE
  /\ attempts = 0
  /\ lastGuessSan = None
  /\ lastGuessCorrect = None
  /\ feedbackMessage = None
  /\ evaluating = FALSE
  /\ blunderEval = None
  /\ displayLastMoveColor = "red"
  /\ viewingHistory = FALSE
  /\ hintUsed = FALSE
  /\ showSolution = FALSE
  /\ solutionStep = 0
  /\ playingSolution = FALSE

PageIdle ==
  /\ chessThrows = FALSE
  /\ provider = <<>>
  /\ storage = None
  /\ puzzleId = <<>>
  /\ PageInit
  /\ BlunderIdle

PageOther == <<fenVars, gradeVars, feedbackVars, blunderVars>>

\* A new load starts only while fewer than MaxPuzzles puzzles were loaded
\* (every loaded puzzle asks for one evaluation).
BuildNext ==
  \/ Len(evals) < MaxPuzzles /\ EffectLoad /\ UNCHANGED PageOther
  \/ Len(evals) < MaxPuzzles /\ RetryLoad /\ UNCHANGED PageOther
  \/ LoadPuzzleFetched /\ UNCHANGED PageOther
  \/ LoadPuzzleFetchFails /\ UNCHANGED PageOther

GuessNext ==
  \/ Len(evals) < MaxPuzzles /\ EffectLoad /\ UNCHANGED PageOther
  \/ Len(evals) < MaxPuzzles /\ RetryLoad /\ UNCHANGED PageOther
  \/ LoadPuzzleFetched /\ UNCHANGED PageOther
  \/ LoadPuzzleFetchFails /\ UNCHANGED PageOther
  \/ StartAnimation /\ UNCHANGED PageOther
  \/ AnimateToIndex /\ UNCHANGED PageOther
  \/ \E v \in GuessChoices : SetEloGuess(v) /\ UNCHANGED PageOther
  \/ SubmitGuess /\ UNCHANGED PageOther
  \/ StartFindingBetterMove /\ UNCHANGED PageOther
  \/ SkipBetterMove /\ UNCHANGED PageOther
  \/ LoadRandomPuzzle /\ UNCHANGED PageOther
  \/ \E id \in DOMAIN provider : RandomPuzzleFetched(id) /\ UNCHANGED PageOther
  \/ RandomPuzzleFetchFails /\ UNCHANGED PageOther

\* The rating-guess page with its move list: loading, playback, the phases
\* and the navigation by click and by key.
TimelineNext ==
  \/ Len(evals) < MaxPuzzles /\ EffectLoad /\ UNCHANGED PageOther
  \/ Len(evals) < MaxPuzzles /\ RetryLoad /\ UNCHANGED PageOther
  \/ LoadPuzzleFetched /\ UNCHANGED PageOther
  \/ LoadPuzzleFetchFails /\ UNCHANGED PageOther
  \/ StartAnimation /\ UNCHANGED PageOther
  \/ AnimateToIndex /\ UNCHANGED PageOther
  \/ HistoryClick /\ UNCHANGED PageOther
  \/ HistoryKey /\ UNCHANGED PageOther
  \/ SubmitGuess /\ UNCHANGED PageOther
  \/ StartFindingBetterMove /\ UNCHANGED PageOther
  \/ SkipBetterMove /\ UNCHANGED PageOther
  \/ LoadRandomPuzzle /\ UNCHANGED PageOther
  \/ \E id \in DOMAIN provider : RandomPuzzleFetched(id) /\ UNCHANGED PageOther
  \/ RandomPuzzleFetchFails /\ UNCHANGED PageOther

\* No continuation is ready to run.  A continuation of a settled promise is
\* a microtask: it runs before the next event, timer or message is handled.
Idle == \A k \in 1..Len(conts) : Unsettled(evals[conts[k].eval])

\* The rating-guess page together with the engine it shares.  The steps that
\* ask for an evaluation (a puzzle arriving, a move on the board) are taken
\* only while fewer than MaxEvals evaluations were asked for; the rating
\* submitted is the slider's initial one.
SessionNext ==
  \/ Idle /\ EffectLoad /\ UNCHANGED PageOther
  \/ Idle /\ RetryLoad /\ UNCHANGED PageOther
  \/ Idle /\ Len(evals) < MaxEvals /\ LoadPuzzleFetched /\ UNCHANGED PageOther
  \/ Idle /\ LoadPuzzleFetchFails /\ UNCHANGED PageOther
  \/ Idle /\ StartAnimation /\ UNCHANGED PageOther
  \/ Idle /\ AnimateToIndex /\ UNCHANGED PageOther
  \/ Idle /\ SubmitGuess /\ UNCHANGED PageOther
  \/ Idle /\ StartFindingBetterMove /\ UNCHANGED PageOther
  \/ Idle /\ SkipBetterMove /\ UNCHANGED PageOther
  \/ Idle /\ Len(evals) < MaxEvals /\ HandleBetterMove /\ UNCHANGED PageOther
  \/ BestMoveEvalThen /\ UNCHANGED PageOther
  \/ BestMoveEvalCatch /\ UNCHANGED PageOther
  \/ BetterMoveEvaluated /\ UNCHANGED PageOther
  \/ BetterMoveFails /\ UNCHANGED PageOther
  \/ Idle /\ LoadRandomPuzzle /\ UNCHANGED PageOther
  \/ Idle /\ \E id \in DOMAIN provider : RandomPuzzleFetched(id) /\ UNCHANGED PageOther
  \/ Idle /\ RandomPuzzleFetchFails /\ UNCHANGED PageOther
  \/ Idle /\ CheckReady /\ UNCHANGED EngineOther
  \/ Idle /\ InitTimeout /\ UNCHANGED EngineOther
  \/ Idle /\ WorkerError /\ UNCHANGED EngineOther
  \/ Idle /\ HandleUciOk /\ UNCHANGED EngineOther
  \/ Idle /\ HandleReadyOk /\ UNCHANGED EngineOther
  \/ Idle /\ HandleInfo /\ UNCHANGED EngineOther
  \/ Idle /\ HandleBestMove /\ UNCHANGED EngineOther
  \/ Idle /\ WorkerUci /\ UNCHANGED EngineOther
  \/ Idle /\ WorkerIsReady /\ UNCHANGED EngineOther
  \/ Idle /\ WorkerPosition /\ UNCHANGED EngineOther
  \/ Idle /\ WorkerGo /\ UNCHANGED EngineOther
  \/ Idle /\ WorkerInfo /\ UNCHANGED EngineOther
  \/ Idle /\ WorkerBestMove /\ UNCHANGED EngineOther

(***************************************************************************)
(* Verdict messages: getScoreMessage (the rating-guess page) and           *)
(* getMoveFeedback (lib/stockfish).                                        *)
(***************************************************************************)
MaxDifference == 600   \* largest rating difference shown a message

\* A banding that is not the program's: the thresholds themselves fall
\* into the next band.
getScoreMessageStrict(diff) ==
  IF diff < 50 THEN "Incredible! Almost exact!"
  ELSE IF diff < 100 THEN "Excellent guess!"
  ELSE IF diff < 200 THEN "Very close!"
  ELSE IF diff < 300 THEN "Not bad!"
  ELSE IF diff < 500 THEN "Could be closer..."
  ELSE "Way off!"

getScoreMessage(diff) ==
  IF diff <= 50 THEN "Incredible! Almost exact!"
  ELSE IF diff <= 100 THEN "Excellent guess!"
  ELSE IF diff <= 200 THEN "Very close!"
  ELSE IF diff <= 300 THEN "Not bad!"
  ELSE IF diff <= 500 THEN "Could be closer..."
  ELSE "Way off!"

FeedbackIdle ==
  /\ fbDiff = 0
  /\ fbUserEval = None
  /\ fbBlunderEval = None
  /\ fbMessage = None

\* The page in phase 'revealed', for any difference submitGuess can leave.
ScoreMessageInit ==
  /\ fbDiff \in 0..MaxDifference
  /\ fbUserEval = None
  /\ fbBlunderEval = None
  /\ fbMessage = None

\* {getScoreMessage(difference)} is rendered.
ShowScoreMessage ==
  /\ fbMessage = None
  /\ fbMessage' = Some(getScoreMessage(fbDiff))
  /\ UNCHANGED <<fbDiff, fbUserEval, fbBlunderEval>>

FeedbackDepth == 12   \* evaluatePosition(move.fen, 12)

getMoveFeedback(userEval, gameEval) ==
  LET userScore    == userEval.score
      blunderScore == gameEval.score
      diff         == userScore - blunderScore
  IN  IF IsSome(userEval.mate) /\ Val(userEval.mate) < 0
      THEN "That's also losing, but not the move played."
      ELSE IF /\ IsSome(gameEval.mate) /\ Val(gameEval.mate) < 0
              /\ (userEval.mate = None \/ Val(userEval.mate) > 0)
      THEN "Good thinking! That move avoids the disaster."
      ELSE IF diff > 200
      THEN "That's actually a decent move! The game blunder was much worse."
      ELSE IF diff > 50 THEN "That's slightly better than what was played."
      ELSE IF diff > -50
      THEN "That's about as bad as the game blunder, but not the one played."
      ELSE IF diff > -200 THEN "That's also a mistake, but the game blunder was worse."
      ELSE "That's also a blunder, but not the one from the game."

\* The last score the worker reports for a position, relative to the side
\* to move in it: centipawns, or moves to mate (negative: the side to move
\* is mated).
UserLines ==
  {<<"cp", v>> : v \in {-500, -201, -200, -199, -51, -50, -49, 0,
                        49, 50, 51, 199, 200, 201, 500}}
  \cup {<<"mate", n>> : n \in {-2, -1, 1, 2}}
BlunderLines ==
  {<<"cp", v>> : v \in {0, 100}} \cup {<<"mate", n>> : n \in {-2, -1, 1, 2}}

\* The EvalResult handleMessage resolves a search with whose last info
\* line is `line`.
SampleOf(line) ==
  LET cur == parseInfoLine(EmptyEval, [depth |-> FeedbackDepth, kind |-> line[1],
                                        value |-> line[2], pos |-> "fen"])
  IN  EvalResult(OrElse(cur.score, 0), cur.mate, None, OrElse(cur.depth, 0))

\* The puzzle page after a wrong guess: both samples have arrived.
MoveFeedbackInit ==
  /\ fbDiff = 0
  /\ fbUserEval \in {Some(SampleOf(l)) : l \in UserLines}
  /\ fbBlunderEval \in {Some(SampleOf(l)) : l \in BlunderLines}
  /\ fbMessage = None

\* feedbackMessage = getMoveFeedback(userMoveEval, blunderEval)
ShowMoveFeedback ==
  /\ fbMessage = None
  /\ fbMessage' = Some(getMoveFeedback(Val(fbUserEval), Val(fbBlunderEval)))
  /\ UNCHANGED <<fbDiff, fbUserEval, fbBlunderEval>>

(***************************************************************************)
(* The find-the-blunder page (routes/blunder/[id]) and the engine it       *)
(* shares.  It keeps its puzzle, loading, error, currentFen and            *)
(* displayLastMove in fields of the same names as the rating-guess page;   *)
(* the fields of that page it does not have stay as they were.             *)
(***************************************************************************)
MaxAttempts == 2     \* moves tried on the board per run

eloVars == <<phase, allMoves, blunderMoveIndex, isAnimating, guessVars, bestMoveEval,
             userMoveEval, userMoveSan, bestMoveSan, movePoints, evaluatingMove>>

NotTheBlunder == "That's not the blunder. Try again!"

\* puzzle.opponentLastMove ? { from, to } : null
OpponentLastMove(p) ==
  IF IsSome(p.opponentLastMove)
  THEN Some([from |-> Val(p.opponentLastMove).from, to |-> Val(p.opponentLastMove).to])
  ELSE None

\* loadPuzzle(id) up to its await.
BlunderLoadStart(id) ==
  /\ loading' = TRUE
  /\ error' = None
  /\ solved' = FALSE
  /\ attempts' = 0
  /\ lastGuessSan' = None
  /\ lastGuessCorrect' = None
  /\ showSolution' = FALSE
  /\ solutionStep' = 0
  /\ playingSolution' = FALSE
  /\ feedbackMessage' = None
  /\ blunderEval' = None
  /\ currentMoveIndex' = -1
  /\ viewingHistory' = FALSE
  /\ hintUsed' = FALSE
  /\ fetches' = Append(fetches, id)
  /\ conts' = TornDown(conts)
  /\ UNCHANGED <<puzzleId, puzzle, currentFen, displayLastMove, displayLastMoveColor,
                 evaluating, randomFetches, timers, eloVars, worldVars,
                 engineVars, workerVars>>

\* $effect: the route's puzzle id differs from the one loaded.
BlunderEffectLoad ==
  /\ loadedPuzzleId # Some(puzzleId)
  /\ loadedPuzzleId' = Some(puzzleId)
  /\ BlunderLoadStart(puzzleId)

\* The "Try Again" button of the error panel.
BlunderRetryLoad ==
  /\ ~loading /\ IsSome(error)
  /\ BlunderLoadStart(puzzleId)
  /\ UNCHANGED loadedPuzzleId

\* loadPuzzle(id) from its await on: the response arrived.  The position
\* after the game's move is sent to the engine in the background.
BlunderPuzzleFetched ==
  \E k \in 1..Len(fetches) :
    LET processed == processLichessPuzzle(provider[fetches[k]], chessThrows)
        p == Val(processed.value)
    IN  /\ fetches' = RemoveAt(fetches, k)
        /\ loading' = FALSE
        /\ IF IsSome(processed.thrown)
           THEN /\ error' = processed.thrown
                /\ UNCHANGED <<puzzle, currentFen, displayLastMove, displayLastMoveColor,
                               conts, engineVars, workerVars>>
           ELSE /\ puzzle' = Some(p)
                /\ currentFen' = p.preFen
                /\ displayLastMove' = OpponentLastMove(p)
                /\ displayLastMoveColor' = "red"
                /\ evaluatePosition(p.fen, FeedbackDepth)
                /\ conts' = Append(conts, Continuation(Len(evals) + 1, "blunderEval", <<>>))
                /\ UNCHANGED error
        /\ UNCHANGED <<puzzleId, loadedPuzzleId, currentMoveIndex, randomFetches, timers,
                       solved, attempts, lastGuessSan, lastGuessCorrect, feedbackMessage,
                       evaluating, blunderEval, reviewVars, solutionVars, eloVars, worldVars>>

\* loadPuzzle(id) from its await on: the request failed.
BlunderFetchFails ==
  \E k \in 1..Len(fetches) :
    /\ fetches' = RemoveAt(fetches, k)
    /\ error' = Some(FetchFailed(fetches[k]))
    /\ loading' = FALSE
    /\ UNCHANGED <<puzzleId, loadedPuzzleId, puzzle, currentFen, currentMoveIndex,
                   displayLastMove, randomFetches, timers, conts, blunderVars, eloVars,
                   worldVars, engineVars, workerVars>>

\* evaluatePosition(puzzle.fen, 12).then((evalResult) => { blunderEval = evalResult })
BlunderEvalThen ==
  \E k \in Settled("blunderEval", "resolved") :
    /\ blunderEval' = evals[conts[k].eval].result
    /\ conts' = RemoveAt(conts, k)
    /\ UNCHANGED <<puzzleId, loadedPuzzleId, puzzle, loading, error, currentFen,
                   currentMoveIndex, displayLastMove, fetches, randomFetches, timers,
                   solved, attempts, lastGuessSan, lastGuessCorrect, feedbackMessage,
                   evaluating, displayLastMoveColor, reviewVars, solutionVars, eloVars, worldVars,
                   engineVars, workerVars>>

\* ... .catch(console.error)
BlunderEvalCatch ==
  \E k \in Settled("blunderEval", "rejected") :
    /\ conts' = RemoveAt(conts, k)
    /\ UNCHANGED <<puzzleId, loadedPuzzleId, puzzle, loading, error, currentFen,
                   currentMoveIndex, displayLastMove, fetches, randomFetches, timers,
                   blunderVars, eloVars, worldVars, engineVars, workerVars>>

\* setTimeout(() => { ... }, 1500), armed after a wrong guess
ResetTimer == [fn |-> "resetBoard", arg |-> 0]

\* handleMove that asks the engine about every wrong guess, whether or not
\* the page holds the evaluation of the game's move.
HandleMoveWaitsForEngine ==
  /\ Rendered /\ ~solved /\ ~playingSolution
  /\ \A k \in 1..Len(timers) : timers[k] # ResetTimer
  /\ ~evaluating
  /\ attempts < MaxAttempts
  /\ \E m \in LegalMoves(ChessLoad(currentFen)) :
       LET fen == ChessFen(AfterMove(ChessLoad(currentFen), m))
       IN  /\ attempts' = attempts + 1
           /\ lastGuessSan' = Some(m.san)
           /\ displayLastMove' = Some([from |-> m.from, to |-> m.to])
           /\ displayLastMoveColor' = "green"
           /\ IF fenPositionsMatch(fen, Val(puzzle).fen)
              THEN /\ solved' = TRUE
                   /\ lastGuessCorrect' = Some(TRUE)
                   /\ currentFen' = fen
                   /\ feedbackMessage' = None
                   /\ UNCHANGED <<evaluating, timers, conts, engineVars, workerVars>>
              ELSE /\ lastGuessCorrect' = Some(FALSE)
                   /\ UNCHANGED <<solved, currentFen>>
                   /\ evaluating' = TRUE
                   /\ feedbackMessage' = None
                   /\ evaluatePosition(fen, FeedbackDepth)
                   /\ conts' = Append(conts,
                                 Continuation(Len(evals) + 1, "guessEval", <<>>))
                   /\ UNCHANGED timers
  /\ UNCHANGED <<puzzleId, loadedPuzzleId, puzzle, loading, error, currentMoveIndex,
                 fetches, randomFetches, blunderEval, reviewVars, solutionVars, eloVars, worldVars>>

\* handleMove(move) up to its await: a move made on the board, which is
\* interactive while !solved && !playingSolution.  The move is made in the
\* position the page shows: a second move before the board was reset is not
\* part of the model.
HandleMove ==
  /\ Rendered /\ ~solved /\ ~playingSolution
  /\ \A k \in 1..Len(timers) : timers[k] # ResetTimer
  /\ ~evaluating
  /\ attempts < MaxAttempts
  /\ \E m \in LegalMoves(ChessLoad(currentFen)) :
       LET fen == ChessFen(AfterMove(ChessLoad(currentFen), m))
       IN  /\ attempts' = attempts + 1
           /\ lastGuessSan' = Some(m.san)
           /\ displayLastMove' = Some([from |-> m.from, to |-> m.to])
           /\ displayLastMoveColor' = "green"
           /\ IF fenPositionsMatch(fen, Val(puzzle).fen)
              THEN /\ solved' = TRUE
                   /\ lastGuessCorrect' = Some(TRUE)
                   /\ currentFen' = fen
                   /\ feedbackMessage' = None
                   /\ UNCHANGED <<evaluating, timers, conts, engineVars, workerVars>>
              ELSE /\ lastGuessCorrect' = Some(FALSE)
                   /\ UNCHANGED <<solved, currentFen>>
                   /\ IF IsSome(blunderEval)
                      THEN /\ evaluating' = TRUE
                           /\ feedbackMessage' = None
                           /\ evaluatePosition(fen, FeedbackDepth)
                           /\ conts' = Append(conts,
                                         Continuation(Len(evals) + 1, "guessEval", <<>>))
                           /\ UNCHANGED timers
                      ELSE /\ feedbackMessage' = Some(NotTheBlunder)
                           /\ timers' = Append(timers, ResetTimer)
                           /\ UNCHANGED <<evaluating, conts, engineVars, workerVars>>
  /\ UNCHANGED <<puzzleId, loadedPuzzleId, puzzle, loading, error, currentMoveIndex,
                 fetches, randomFetches, blunderEval, reviewVars, solutionVars, eloVars, worldVars>>

\* handleMove(move) from its await on.  A rejected evaluation is caught;
\* so is the throw of getMoveFeedback, which reads blunderEval.score first,
\* when a load has reset blunderEval meanwhile.
WrongGuessSettled ==
  \E k \in Settled("guessEval", "resolved") \cup Settled("guessEval", "rejected") :
    /\ feedbackMessage' =
         IF evals[conts[k].eval].state = "resolved" /\ IsSome(blunderEval)
         THEN Some(getMoveFeedback(Val(evals[conts[k].eval].result), Val(blunderEval)))
         ELSE Some(NotTheBlunder)
    /\ evaluating' = FALSE
    /\ timers' = Append(timers, ResetTimer)
    /\ conts' = RemoveAt(conts, k)
    /\ UNCHANGED <<puzzleId, loadedPuzzleId, puzzle, loading, error, currentFen,
                   currentMoveIndex, displayLastMove, fetches, randomFetches,
                   solved, attempts, lastGuessSan, lastGuessCorrect, blunderEval,
                   displayLastMoveColor, reviewVars, solutionVars, eloVars, worldVars, engineVars,
                   workerVars>>

\* The 1500 ms timer armed after a wrong guess fires.
ResetBoard ==
  \E k \in 1..Len(timers) :
    /\ timers[k] = ResetTimer
    /\ timers' = RemoveAt(timers, k)
    /\ currentFen' = Val(puzzle).preFen
    /\ displayLastMove' = OpponentLastMove(Val(puzzle))
    /\ displayLastMoveColor' = "red"
    /\ UNCHANGED <<puzzleId, loadedPuzzleId, puzzle, loading, error, currentMoveIndex,
                   fetches, randomFetches, conts, solved, attempts, lastGuessSan,
                   lastGuessCorrect, feedbackMessage, evaluating, blunderEval,
                   reviewVars, solutionVars, eloVars, worldVars, engineVars, workerVars>>

\* loadRandomPuzzle() up to its await: the "Skip" / "Next Puzzle" button,
\* shown with the puzzle.  What follows its await is the code of the
\* rating-guess page's loadRandomPuzzle (RandomPuzzleFetched,
\* RandomPuzzleFetchFails).
SkipPuzzle ==
  /\ Rendered
  /\ loading' = TRUE
  /\ error' = None
  /\ randomFetches' = randomFetches + 1
  /\ UNCHANGED <<puzzleId, loadedPuzzleId, puzzle, currentFen, currentMoveIndex,
                 displayLastMove, fetches, timers, conts, blunderVars, eloVars,
                 worldVars, engineVars, workerVars>>

\* 'rnbqkbnr/pppppppp/8/8/8/8/PPPPPPPP/RNBQKBNR w KQkq - 0 1', as the
\* fragment writes it
StartFen == ChessFen(NewGame)

\* handleHistoryNavigate(index)
BlunderHistoryNavigate(index) ==
  /\ currentMoveIndex' = index
  /\ viewingHistory' = TRUE
  /\ currentFen' = IF index = -1 THEN StartFen
                   ELSE IF index < Len(Val(puzzle).gameMoves)
                   THEN Val(puzzle).gameMoves[index + 1].fen
                   ELSE currentFen
  /\ UNCHANGED <<puzzleId, loadedPuzzleId, puzzle, loading, error, displayLastMove,
                 fetches, randomFetches, timers, conts, solved, attempts, lastGuessSan,
                 lastGuessCorrect, feedbackMessage, evaluating, blunderEval,
                 displayLastMoveColor, hintUsed, solutionVars, eloVars, worldVars,
                 engineVars, workerVars>>

\* The cursor MoveHistory is given:
\* currentMoveIndex={viewingHistory ? currentMoveIndex : puzzle.gameMoves.length - 1}
ShownMoveIndex == IF viewingHistory THEN currentMoveIndex ELSE Len(Val(puzzle).gameMoves) - 1

\* MoveHistory.handleMoveClick(index): a click on a move of the list.  The
\* page passes no navigable range, so canNavigateTo is true of every index.
BlunderHistoryClick ==
  /\ Rendered
  /\ \E index \in 0..(Len(Val(puzzle).gameMoves) - 1) : BlunderHistoryNavigate(index)

\* MoveHistory.handleKeydown(e): an arrow key.
BlunderHistoryKey ==
  /\ Rendered
  /\ \E newIndex \in {ShownMoveIndex - 1, ShownMoveIndex + 1} :
       /\ newIndex < ShownMoveIndex => newIndex >= -1
       /\ newIndex > ShownMoveIndex => newIndex < Len(Val(puzzle).gameMoves)
       /\ BlunderHistoryNavigate(newIndex)

\* returnToCurrentPosition(): the "Return to puzzle" button, shown while
\* viewingHistory.
ReturnToCurrentPosition ==
  /\ Rendered /\ viewingHistory
  /\ viewingHistory' = FALSE
  /\ currentMoveIndex' = Len(Val(puzzle).gameMoves) - 1
  /\ currentFen' = Val(puzzle).preFen
  /\ UNCHANGED <<puzzleId, loadedPuzzleId, puzzle, loading, error, displayLastMove,
                 fetches, randomFetches, timers, conts, solved, attempts, lastGuessSan,
                 lastGuessCorrect, feedbackMessage, evaluating, blunderEval,
                 displayLastMoveColor, hintUsed, solutionVars, eloVars, worldVars,
                 engineVars, workerVars>>

\* useHint(): the "Hint" button, shown while !solved && !hintUsed.
UseHint ==
  /\ Rendered /\ ~solved /\ ~hintUsed
  /\ hintUsed' = TRUE
  /\ UNCHANGED <<loadVars, conts, solved, attempts, lastGuessSan, lastGuessCorrect,
                 feedbackMessage, evaluating, blunderEval, displayLastMoveColor,
                 viewingHistory, solutionVars, guessVars, bestMoveEval, userMoveEval,
                 userMoveSan, bestMoveSan, movePoints, evaluatingMove, worldVars,
                 engineVars, workerVars>>

\* revealSolution() behind a button that is shown whenever the puzzle is
\* unsolved, hint or no hint: what C27 excludes.
RevealSolutionUnhinted ==
  /\ Rendered /\ ~solved
  /\ solved' = TRUE
  /\ lastGuessSan' = Some(Val(puzzle).blunderSan)
  /\ currentFen' = Val(puzzle).fen
  /\ UNCHANGED <<puzzleId, loadedPuzzleId, puzzle, loading, error, currentMoveIndex,
                 displayLastMove, fetches, randomFetches, timers, conts, attempts,
                 lastGuessCorrect, feedbackMessage, evaluating, blunderEval,
                 displayLastMoveColor, reviewVars, solutionVars, eloVars, worldVars,
                 engineVars, workerVars>>

\* revealSolution(): the "Show Answer" button, shown while !solved && hintUsed.
RevealSolution ==
  /\ Rendered /\ ~solved /\ hintUsed
  /\ solved' = TRUE
  /\ lastGuessSan' = Some(Val(puzzle).blunderSan)
  /\ currentFen' = Val(puzzle).fen
  /\ UNCHANGED <<puzzleId, loadedPuzzleId, puzzle, loading, error, currentMoveIndex,
                 displayLastMove, fetches, randomFetches, timers, conts, attempts,
                 lastGuessCorrect, feedbackMessage, evaluating, blunderEval,
                 displayLastMoveColor, reviewVars, solutionVars, eloVars, worldVars,
                 engineVars, workerVars>>

\* setTimeout(playSolutionStep, ...)
SolutionTimer == [fn |-> "playSolutionStep", arg |-> 0]

\* startSolution(): the "Show why it's bad" button, shown while
\* !evaluating && solved && !showSolution.
StartSolution ==
  /\ Rendered /\ ~evaluating /\ solved /\ ~showSolution
  /\ showSolution' = TRUE
  /\ playingSolution' = TRUE
  /\ solutionStep' = 0
  /\ currentFen' = Val(puzzle).fen
  /\ timers' = Append(timers, SolutionTimer)
  /\ UNCHANGED <<puzzleId, loadedPuzzleId, puzzle, loading, error, currentMoveIndex,
                 displayLastMove, fetches, randomFetches, conts, solved, attempts,
                 lastGuessSan, lastGuessCorrect, feedbackMessage, evaluating,
                 blunderEval, displayLastMoveColor, reviewVars, eloVars, worldVars,
                 engineVars, workerVars>>

\* new Chess(solutionStep === 0 ? puzzle.fen : currentFen) of playSolutionStep
SolutionBoard == ChessLoad(IF solutionStep = 0 THEN Val(puzzle).fen ELSE currentFen)

\* chess.move({ from, to, promotion }) of playSolutionStep: the moves of the
\* board that are the solution move of the step.
SolutionMoves ==
  MovesByUci(SolutionBoard, Slice(Val(puzzle).solutionUci[solutionStep + 1], 0, 2),
             Slice(Val(puzzle).solutionUci[solutionStep + 1], 2, 4))

\* playSolutionStep(): its timer fires.  The move is made in puzzle.fen at
\* step 0 and in currentFen afterwards; a move the position rejects ends the
\* playback when chess.js throws and is passed over (`if (move)`) when it
\* returns null.
PlaySolutionStep ==
  \E k \in 1..Len(timers) :
    /\ timers[k] = SolutionTimer
    /\ IF puzzle = None \/ solutionStep >= Len(Val(puzzle).solutionUci)
       THEN /\ playingSolution' = FALSE
            /\ timers' = RemoveAt(timers, k)
            /\ UNCHANGED <<currentFen, solutionStep>>
       ELSE IF SolutionMoves = {}
       THEN /\ playingSolution' = (~chessThrows /\ playingSolution)
            /\ timers' = RemoveAt(timers, k)
            /\ UNCHANGED <<currentFen, solutionStep>>
       ELSE /\ currentFen' = ChessFen(AfterMove(SolutionBoard,
                                                CHOOSE m \in SolutionMoves : TRUE))
            /\ solutionStep' = solutionStep + 1
            /\ IF solutionStep + 1 < Len(Val(puzzle).solutionUci)
               THEN /\ timers' = Append(RemoveAt(timers, k), SolutionTimer)
                    /\ UNCHANGED playingSolution
               ELSE /\ timers' = RemoveAt(timers, k)
                    /\ playingSolution' = FALSE
    /\ UNCHANGED <<puzzleId, loadedPuzzleId, puzzle, loading, error, currentMoveIndex,
                   displayLastMove, fetches, randomFetches, conts, solved, attempts,
                   lastGuessSan, lastGuessCorrect, feedbackMessage, evaluating,
                   blunderEval, displayLastMoveColor, reviewVars, showSolution,
                   eloVars, worldVars, engineVars, workerVars>>

BlunderOther == <<fenVars, gradeVars, feedbackVars>>

\* The find-the-blunder page together with the engine.  The steps that ask
\* for an evaluation are taken only while fewer than MaxEvals evaluations
\* were asked for.
BlunderNext ==
  \/ Idle /\ BlunderEffectLoad /\ UNCHANGED BlunderOther
  \/ Idle /\ BlunderRetryLoad /\ UNCHANGED BlunderOther
  \/ Idle /\ Len(evals) < MaxEvals /\ BlunderPuzzleFetched /\ UNCHANGED BlunderOther
  \/ Idle /\ BlunderFetchFails /\ UNCHANGED BlunderOther
  \/ BlunderEvalThen /\ UNCHANGED BlunderOther
  \/ BlunderEvalCatch /\ UNCHANGED BlunderOther
  \/ Idle /\ Len(evals) < MaxEvals /\ HandleMove /\ UNCHANGED BlunderOther
  \/ WrongGuessSettled /\ UNCHANGED BlunderOther
  \/ Idle /\ ResetBoard /\ UNCHANGED BlunderOther
  \/ Idle /\ SkipPuzzle /\ UNCHANGED BlunderOther
  \/ Idle /\ \E id \in DOMAIN provider : RandomPuzzleFetched(id) /\ UNCHANGED PageOther
  \/ Idle /\ RandomPuzzleFetchFails /\ UNCHANGED PageOther
  \/ Idle /\ CheckReady /\ UNCHANGED EngineOther
  \/ Idle /\ InitTimeout /\ UNCHANGED EngineOther
  \/ Idle /\ WorkerError /\ UNCHANGED EngineOther
  \/ Idle /\ HandleUciOk /\ UNCHANGED EngineOther
  \/ Idle /\ HandleReadyOk /\ UNCHANGED EngineOther
  \/ Idle /\ HandleInfo /\ UNCHANGED EngineOther
  \/ Idle /\ HandleBestMove /\ UNCHANGED EngineOther
  \/ Idle /\ WorkerUci /\ UNCHANGED EngineOther
  \/ Idle /\ WorkerIsReady /\ UNCHANGED EngineOther
  \/ Idle /\ WorkerPosition /\ UNCHANGED EngineOther
  \/ Idle /\ WorkerGo /\ UNCHANGED EngineOther
  \/ Idle /\ WorkerInfo /\ UNCHANGED EngineOther
  \/ Idle /\ WorkerBestMove /\ UNCHANGED EngineOther

MaxPlayEvals == 3    \* evaluate() calls per run of the page at play

\* What the worker reports at play: one score, one move.
PlayScores == {<<"cp", 30>>}
PlayMoves == {<<"d", "1", "h", "5">>}

\* The find-the-blunder page with room for a third evaluation.  Here every
\* search of the worker reports the same score and the same move
\* (EngineNext and BlunderNext let them vary).
BlunderPlayNext ==
  \/ Idle /\ BlunderEffectLoad /\ UNCHANGED BlunderOther
  \/ Idle /\ BlunderRetryLoad /\ UNCHANGED BlunderOther
  \/ Idle /\ Len(evals) < MaxPlayEvals /\ BlunderPuzzleFetched /\ UNCHANGED BlunderOther
  \/ Idle /\ BlunderFetchFails /\ UNCHANGED BlunderOther
  \/ BlunderEvalThen /\ UNCHANGED BlunderOther
  \/ BlunderEvalCatch /\ UNCHANGED BlunderOther
  \/ Idle /\ Len(evals) < MaxPlayEvals /\ HandleMove /\ UNCHANGED BlunderOther
  \/ WrongGuessSettled /\ UNCHANGED BlunderOther
  \/ Idle /\ ResetBoard /\ UNCHANGED BlunderOther
  \/ Idle /\ SkipPuzzle /\ UNCHANGED BlunderOther
  \/ Idle /\ \E id \in DOMAIN provider : RandomPuzzleFetched(id) /\ UNCHANGED PageOther
  \/ Idle /\ RandomPuzzleFetchFails /\ UNCHANGED PageOther
  \/ Idle /\ CheckReady /\ UNCHANGED EngineOther
  \/ Idle /\ InitTimeout /\ UNCHANGED EngineOther
  \/ Idle /\ WorkerError /\ UNCHANGED EngineOther
  \/ Idle /\ HandleUciOk /\ UNCHANGED EngineOther
  \/ Idle /\ HandleReadyOk /\ UNCHANGED EngineOther
  \/ Idle /\ HandleInfo /\ UNCHANGED EngineOther
  \/ Idle /\ HandleBestMove /\ UNCHANGED EngineOther
  \/ Idle /\ WorkerUci /\ UNCHANGED EngineOther
  \/ Idle /\ WorkerIsReady /\ UNCHANGED EngineOther
  \/ Idle /\ WorkerPosition /\ UNCHANGED EngineOther
  \/ Idle /\ WorkerGo /\ UNCHANGED EngineOther
  \/ Idle /\ WorkerInfoOf(PlayScores) /\ UNCHANGED EngineOther
  \/ Idle /\ WorkerBestMoveOf(PlayMoves) /\ UNCHANGED EngineOther

\* The find-the-blunder page with its history, hint and reveal buttons.
BlunderReviewNext ==
  \/ Idle /\ BlunderEffectLoad /\ UNCHANGED BlunderOther
  \/ Idle /\ BlunderRetryLoad /\ UNCHANGED BlunderOther
  \/ Idle /\ Len(evals) < MaxEvals /\ BlunderPuzzleFetched /\ UNCHANGED BlunderOther
  \/ Idle /\ BlunderFetchFails /\ UNCHANGED BlunderOther
  \/ BlunderEvalThen /\ UNCHANGED BlunderOther
  \/ BlunderEvalCatch /\ UNCHANGED BlunderOther
  \/ Idle /\ Len(evals) < MaxEvals /\ HandleMove /\ UNCHANGED BlunderOther
  \/ WrongGuessSettled /\ UNCHANGED BlunderOther
  \/ Idle /\ ResetBoard /\ UNCHANGED BlunderOther
  \/ Idle /\ BlunderHistoryClick /\ UNCHANGED BlunderOther
  \/ Idle /\ BlunderHistoryKey /\ UNCHANGED BlunderOther
  \/ Idle /\ ReturnToCurrentPosition /\ UNCHANGED BlunderOther
  \/ Idle /\ UseHint /\ UNCHANGED BlunderOther
  \/ Idle /\ RevealSolution /\ UNCHANGED BlunderOther
  \/ Idle /\ SkipPuzzle /\ UNCHANGED BlunderOther
  \/ Idle /\ \E id \in DOMAIN provider : RandomPuzzleFetched(id) /\ UNCHANGED PageOther
  \/ Idle /\ RandomPuzzleFetchFails /\ UNCHANGED PageOther
  \/ Idle /\ CheckReady /\ UNCHANGED EngineOther
  \/ Idle /\ InitTimeout /\ UNCHANGED EngineOther
  \/ Idle /\ WorkerError /\ UNCHANGED EngineOther
  \/ Idle /\ HandleUciOk /\ UNCHANGED EngineOther
  \/ Idle /\ HandleReadyOk /\ UNCHANGED EngineOther
  \/ Idle /\ HandleInfo /\ UNCHANGED EngineOther
  \/ Idle /\ HandleBestMove /\ UNCHANGED EngineOther
  \/ Idle /\ WorkerUci /\ UNCHANGED EngineOther
  \/ Idle /\ WorkerIsReady /\ UNCHANGED EngineOther
  \/ Idle /\ WorkerPosition /\ UNCHANGED EngineOther
  \/ Idle /\ WorkerGo /\ UNCHANGED EngineOther
  \/ Idle /\ WorkerInfoOf(PlayScores) /\ UNCHANGED EngineOther
  \/ Idle /\ WorkerBestMoveOf(PlayMoves) /\ UNCHANGED EngineOther

\* The rating-guess page from the load of a puzzle to the end of its
\* playback, with the move list's navigation and the engine behind the
\* baseline evaluation, which may or may not answer.
PlaybackNext ==
  \/ Idle /\ EffectLoad /\ UNCHANGED PageOther
  \/ Idle /\ RetryLoad /\ UNCHANGED PageOther
  \/ Idle /\ Len(evals) < MaxEvals /\ LoadPuzzleFetched /\ UNCHANGED PageOther
  \/ Idle /\ LoadPuzzleFetchFails /\ UNCHANGED PageOther
  \/ Idle /\ StartAnimation /\ UNCHANGED PageOther
  \/ Idle /\ AnimateToIndex /\ UNCHANGED PageOther
  \/ Idle /\ HistoryClick /\ UNCHANGED PageOther
  \/ Idle /\ HistoryKey /\ UNCHANGED PageOther
  \/ BestMoveEvalThen /\ UNCHANGED PageOther
  \/ BestMoveEvalCatch /\ UNCHANGED PageOther
  \/ Idle /\ CheckReady /\ UNCHANGED EngineOther
  \/ Idle /\ InitTimeout /\ UNCHANGED EngineOther
  \/ Idle /\ WorkerError /\ UNCHANGED EngineOther
  \/ Idle /\ HandleUciOk /\ UNCHANGED EngineOther
  \/ Idle /\ HandleReadyOk /\ UNCHANGED EngineOther
  \/ Idle /\ HandleInfo /\ UNCHANGED EngineOther
  \/ Idle /\ HandleBestMove /\ UNCHANGED EngineOther
  \/ Idle /\ WorkerUci /\ UNCHANGED EngineOther
  \/ Idle /\ WorkerIsReady /\ UNCHANGED EngineOther
  \/ Idle /\ WorkerPosition /\ UNCHANGED EngineOther
  \/ Idle /\ WorkerGo /\ UNCHANGED EngineOther
  \/ Idle /\ WorkerInfoOf(PlayScores) /\ UNCHANGED EngineOther
  \/ Idle /\ WorkerBestMoveOf(PlayMoves) /\ UNCHANGED EngineOther

\* What the event loop runs when it is due: the timers of the playback and
\* the continuations of the baseline's promise.
PlaybackTimerStep ==
  \/ Idle /\ StartAnimation /\ UNCHANGED PageOther
  \/ Idle /\ AnimateToIndex /\ UNCHANGED PageOther
  \/ BestMoveEvalThen /\ UNCHANGED PageOther
  \/ BestMoveEvalCatch /\ UNCHANGED PageOther

(***************************************************************************)
(* Specifications                                                          *)
(***************************************************************************)
SpecFenInit == FenInit /\ GradeIdle /\ EngineIdle /\ PageIdle /\ FeedbackIdle
SpecFenNext == ComparePositions /\ UNCHANGED <<gradeVars, engineVars, workerVars, pageVars, feedbackVars>>
SpecFen == SpecFenInit /\ [][SpecFenNext]_vars

SpecGradeInit == GradeInit /\ FenIdle /\ EngineIdle /\ PageIdle /\ FeedbackIdle
SpecGradeNext == GradeMoves /\ UNCHANGED <<fenVars, engineVars, workerVars, pageVars, feedbackVars>>
SpecGrade == SpecGradeInit /\ [][SpecGradeNext]_vars

SpecEngineInit == EngineInit /\ FenIdle /\ GradeIdle /\ PageIdle /\ FeedbackIdle
SpecEngine == SpecEngineInit /\ [][EngineNext]_vars

SpecBuildInit ==
  /\ chessThrows \in BOOLEAN
  /\ provider \in {[id \in {P1} |-> r] : r \in BuildRecords}
  /\ storage = None
  /\ puzzleId = P1
  /\ PageInit /\ BlunderIdle /\ EngineIdle /\ FenIdle /\ GradeIdle /\ FeedbackIdle
SpecBuild == SpecBuildInit /\ [][BuildNext]_vars

SpecGuessInit ==
  /\ chessThrows \in BOOLEAN
  /\ provider \in GuessProviders
  /\ storage \in StoredStats
  /\ puzzleId = P1
  /\ PageInit /\ BlunderIdle /\ EngineIdle /\ FenIdle /\ GradeIdle /\ FeedbackIdle
SpecGuess == SpecGuessInit /\ [][GuessNext]_vars

SpecTimelineInit ==
  /\ chessThrows \in BOOLEAN
  /\ provider \in TimelineProviders
  /\ storage \in StoredStats
  /\ puzzleId = P1
  /\ PageInit /\ BlunderIdle /\ EngineIdle /\ FenIdle /\ GradeIdle /\ FeedbackIdle
SpecTimeline == SpecTimelineInit /\ [][TimelineNext]_vars

\* The rating-guess page under route changes: a load may start while an
\* earlier one still awaits its response, and the responses arrive in any
\* order.  At most MaxPuzzles loads are started.
RouteNext ==
  \/ RouteChange /\ UNCHANGED PageOther
  \/ Len(evals) + Len(fetches) < MaxPuzzles /\ EffectLoad /\ UNCHANGED PageOther
  \/ LoadPuzzleFetched /\ UNCHANGED PageOther
  \/ StartAnimation /\ UNCHANGED PageOther
  \/ AnimateToIndex /\ UNCHANGED PageOther
  \/ SubmitGuess /\ UNCHANGED PageOther

SpecRouteInit ==
  /\ chessThrows = FALSE
  /\ provider = GuessProvider(1500)
  /\ storage = None
  /\ puzzleId \in {P1, P2}
  /\ PageInit /\ BlunderIdle /\ EngineIdle /\ FenIdle /\ GradeIdle /\ FeedbackIdle
SpecRoute == SpecRouteInit /\ [][RouteNext]_vars

SpecPlaybackInit ==
  /\ chessThrows = FALSE
  /\ provider \in PlaybackProviders
  /\ storage = None
  /\ puzzleId = P1
  /\ PageInit /\ BlunderIdle /\ EngineIdle /\ FenIdle /\ GradeIdle /\ FeedbackIdle
SpecPlayback == SpecPlaybackInit /\ [][PlaybackNext]_vars
SpecPlaybackFair == SpecPlayback /\ WF_vars(PlaybackTimerStep)

\* Either page with its move list.  Which page is open is read off eloGuess,
\* a field the find-the-blunder page does not have (0 here); the slider of
\* the rating-guess page never reaches 0.
OnRatingPage == eloGuess # 0
OnBlunderPage == eloGuess = 0

NavigationNext ==
  \/ OnRatingPage /\ Len(evals) < MaxPuzzles /\ EffectLoad /\ UNCHANGED PageOther
  \/ OnRatingPage /\ LoadPuzzleFetched /\ UNCHANGED PageOther
  \/ OnRatingPage /\ StartAnimation /\ UNCHANGED PageOther
  \/ OnRatingPage /\ AnimateToIndex /\ UNCHANGED PageOther
  \/ OnRatingPage /\ HistoryClick /\ UNCHANGED PageOther
  \/ OnRatingPage /\ HistoryKey /\ UNCHANGED PageOther
  \/ OnRatingPage /\ SubmitGuess /\ UNCHANGED PageOther
  \/ OnBlunderPage /\ Idle /\ BlunderEffectLoad /\ UNCHANGED BlunderOther
  \/ OnBlunderPage /\ Idle /\ Len(evals) < MaxEvals /\ BlunderPuzzleFetched /\ UNCHANGED BlunderOther
  \/ OnBlunderPage /\ BlunderEvalThen /\ UNCHANGED BlunderOther
  \/ OnBlunderPage /\ BlunderEvalCatch /\ UNCHANGED BlunderOther
  \/ OnBlunderPage /\ Idle /\ Len(evals) < MaxEvals /\ HandleMove /\ UNCHANGED BlunderOther
  \/ OnBlunderPage /\ WrongGuessSettled /\ UNCHANGED BlunderOther
  \/ OnBlunderPage /\ Idle /\ ResetBoard /\ UNCHANGED BlunderOther
  \/ OnBlunderPage /\ Idle /\ BlunderHistoryClick /\ UNCHANGED BlunderOther
  \/ OnBlunderPage /\ Idle /\ BlunderHistoryKey /\ UNCHANGED BlunderOther
  \/ OnBlunderPage /\ Idle /\ ReturnToCurrentPosition /\ UNCHANGED BlunderOther
  \/ OnBlunderPage /\ Idle /\ UseHint /\ UNCHANGED BlunderOther
  \/ OnBlunderPage /\ Idle /\ RevealSolution /\ UNCHANGED BlunderOther
  \/ OnBlunderPage /\ Idle /\ CheckReady /\ UNCHANGED EngineOther
  \/ OnBlunderPage /\ Idle /\ InitTimeout /\ UNCHANGED EngineOther
  \/ OnBlunderPage /\ Idle /\ WorkerError /\ UNCHANGED EngineOther
  \/ OnBlunderPage /\ Idle /\ HandleUciOk /\ UNCHANGED EngineOther
  \/ OnBlunderPage /\ Idle /\ HandleReadyOk /\ UNCHANGED EngineOther
  \/ OnBlunderPage /\ Idle /\ HandleInfo /\ UNCHANGED EngineOther
  \/ OnBlunderPage /\ Idle /\ HandleBestMove /\ UNCHANGED EngineOther
  \/ OnBlunderPage /\ Idle /\ WorkerUci /\ UNCHANGED EngineOther
  \/ OnBlunderPage /\ Idle /\ WorkerIsReady /\ UNCHANGED EngineOther
  \/ OnBlunderPage /\ Idle /\ WorkerPosition /\ UNCHANGED EngineOther
  \/ OnBlunderPage /\ Idle /\ WorkerGo /\ UNCHANGED EngineOther
  \/ OnBlunderPage /\ Idle /\ WorkerInfoOf(PlayScores) /\ UNCHANGED EngineOther
  \/ OnBlunderPage /\ Idle /\ WorkerBestMoveOf(PlayMoves) /\ UNCHANGED EngineOther

SpecNavigationInit ==
  /\ chessThrows = FALSE /\ storage = None /\ puzzleId = P1
  /\ \/ provider \in TimelineProviders /\ eloGuess = DefaultEloGuess
     \/ provider = GuessProvider(1200) /\ eloGuess = 0
  /\ PageInitExceptGuess
  /\ BlunderIdle /\ EngineIdle /\ FenIdle /\ GradeIdle /\ FeedbackIdle
SpecNavigation == SpecNavigationInit /\ [][NavigationNext]_vars

SpecSessionInit ==
  /\ chessThrows = FALSE
  /\ provider = GuessProvider(1200)
  /\ storage = None
  /\ puzzleId = P1
  /\ PageInit /\ BlunderIdle /\ EngineIdle /\ FenIdle /\ GradeIdle /\ FeedbackIdle
SpecSession == SpecSessionInit /\ [][SessionNext]_vars

SpecBlunderInit ==
  /\ chessThrows = FALSE /\ provider = GuessProvider(1200) /\ storage = None
  /\ puzzleId = P1
  /\ PageInit /\ BlunderIdle
  /\ EngineIdle /\ FenIdle /\ GradeIdle /\ FeedbackIdle

SpecBlunder == SpecBlunderInit /\ [][BlunderNext]_vars

SpecBlunderPlay == SpecBlunderInit /\ [][BlunderPlayNext]_vars

SpecBlunderReview == SpecBlunderInit /\ [][BlunderReviewNext]_vars

\* A provider whose p1 has a solution of two moves: 2.Qh5?? is answered by
\* 2...Qh4 3.a3.  At the position before the blunder a3 is a wrong guess.
SolutionProvider ==
  [id \in {P1, P2} |->
      IF id = P1
      THEN RawRecord(P1, <<SanE4, SanE5, SanQh5 \o <<"?", "?">> >>,
                     << <<"d", "8", "h", "4">>, <<"a", "2", "a", "3">> >>,
                     Players(1200, 1800))
      ELSE RawRecord(P2, <<SanE4, SanE5>>, << <<"d", "1", "h", "5">> >>,
                     Players(2000, 1299))]

\* The find-the-blunder page with its solution playback.  The engine is
\* created and sent the baseline search but does not answer within the run:
\* a wrong guess gets the fixed message and its reset timer at once.
SolutionNext ==
  \/ BlunderEffectLoad /\ UNCHANGED BlunderOther
  \/ Len(evals) < MaxEvals /\ BlunderPuzzleFetched /\ UNCHANGED BlunderOther
  \/ HandleMove /\ UNCHANGED BlunderOther
  \/ ResetBoard /\ UNCHANGED BlunderOther
  \/ BlunderHistoryClick /\ UNCHANGED BlunderOther
  \/ BlunderHistoryKey /\ UNCHANGED BlunderOther
  \/ ReturnToCurrentPosition /\ UNCHANGED BlunderOther
  \/ UseHint /\ UNCHANGED BlunderOther
  \/ RevealSolution /\ UNCHANGED BlunderOther
  \/ StartSolution /\ UNCHANGED BlunderOther
  \/ PlaySolutionStep /\ UNCHANGED BlunderOther

\* A pending playSolutionStep timer fires, told by what every run of the
\* callback does to the timer queue, the step counter and the playing flag:
\* the timer leaves the queue, the callback may arm the next one, count a
\* move and clear the flag.  Of the steps of the page exactly those of
\* PlaySolutionStep are such steps that change one of the three.
playbackVars == <<timers, solutionStep, playingSolution>>
SolutionTimerFires ==
  \E k \in 1..Len(timers) :
    /\ timers[k] = SolutionTimer
    /\ \/ timers' = RemoveAt(timers, k)
       \/ timers' = Append(RemoveAt(timers, k), SolutionTimer)
    /\ solutionStep' \in {solutionStep, solutionStep + 1}
    /\ playingSolution' \in {playingSolution, FALSE}

\* The reset timer of a wrong guess fires.
ResetTimerFires ==
  \E k \in 1..Len(timers) :
    /\ timers[k] = ResetTimer
    /\ timers' = RemoveAt(timers, k)
    /\ UNCHANGED <<solutionStep, playingSolution>>

\* What the event loop runs when it is due: the timers of the page.
SolutionTimerStep == ResetTimerFires \/ SolutionTimerFires

SpecSolutionInit ==
  /\ chessThrows \in BOOLEAN /\ provider = SolutionProvider /\ storage = None
  /\ puzzleId = P1
  /\ PageInit /\ BlunderIdle
  /\ EngineIdle /\ FenIdle /\ GradeIdle /\ FeedbackIdle
SpecSolution == SpecSolutionInit /\ [][SolutionNext]_vars
SpecSolutionFair == SpecSolution /\ WF_playbackVars(SolutionTimerStep)

\* The steps the page takes by itself: promise continuations, the reset
\* timer, the worker and the handling of its messages.  The event loop and
\* the worker thread run them when they are due.
BlunderSystemStep ==
  \/ BlunderEvalThen /\ UNCHANGED BlunderOther
  \/ BlunderEvalCatch /\ UNCHANGED BlunderOther
  \/ WrongGuessSettled /\ UNCHANGED BlunderOther
  \/ Idle /\ ResetBoard /\ UNCHANGED BlunderOther
  \/ Idle /\ HandleUciOk /\ UNCHANGED EngineOther
  \/ Idle /\ HandleReadyOk /\ UNCHANGED EngineOther
  \/ Idle /\ HandleInfo /\ UNCHANGED EngineOther
  \/ Idle /\ HandleBestMove /\ UNCHANGED EngineOther
  \/ Idle /\ WorkerUci /\ UNCHANGED EngineOther
  \/ Idle /\ WorkerIsReady /\ UNCHANGED EngineOther
  \/ Idle /\ WorkerPosition /\ UNCHANGED EngineOther
  \/ Idle /\ WorkerGo /\ UNCHANGED EngineOther
  \/ Idle /\ WorkerInfoOf(PlayScores) /\ UNCHANGED EngineOther
  \/ Idle /\ WorkerBestMoveOf(PlayMoves) /\ UNCHANGED EngineOther

SpecBlunderPlayFair == SpecBlunderPlay /\ WF_vars(BlunderSystemStep)

FeedbackOther == <<fenVars, gradeVars, engineVars, workerVars, pageVars>>

SpecScoreMessageInit == ScoreMessageInit /\ FenIdle /\ GradeIdle /\ EngineIdle /\ PageIdle
SpecScoreMessageNext == ShowScoreMessage /\ UNCHANGED FeedbackOther
SpecScoreMessage == SpecScoreMessageInit /\ [][SpecScoreMessageNext]_vars

SpecFeedbackInit == MoveFeedbackInit /\ FenIdle /\ GradeIdle /\ EngineIdle /\ PageIdle
SpecFeedbackNext == ShowMoveFeedback /\ UNCHANGED FeedbackOther
SpecFeedback == SpecFeedbackInit /\ [][SpecFeedbackNext]_vars

(***************************************************************************)
(* Claims                                                                  *)
(***************************************************************************)
\* C1: without any stop(), a second evaluate() issued while the first is
\* pending leaves the first promise able to settle (the gateway still holds
\* its resolve), and every promise is resolved only with lines searched from
\* its own position.
C1_OwnResultOnly ==
  stopsSent = 0 =>
    \A i \in 1..Len(evals) :
      /\ evals[i].state = "pending" => pendingEval = Some(i)
      /\ evals[i].state = "resolved" =>
            /\ evals[i].src = Some(evals[i].fen)
            /\ evals[i].accSrc \subseteq {evals[i].fen}

\* C2: an evaluate() called while an earlier promise is unsettled, with no
\* stop() in between, is rejected as busy.
C2_BusyCallRejected ==
  \A i \in 1..Len(evals) :
    evals[i].busy => (evals[i].state = "rejected" /\ evals[i].error = Some("busy"))

KeptFields(f) == <<f[1], f[2], f[3], f[4]>>

\* The raw record of the puzzle the page loaded, its move list as the
\* builder reads it, and its solution.
LoadedRecord == provider[Val(loadedPuzzleId)]
Supplied == PgnMoves(LoadedRecord.game.pgn)
SuppliedSolution == LoadedRecord.puzzle.solution

\* The replay steps of a record in order: every supplied move by notation
\* (index in the move list), then every solution move in coordinate form
\* (index in the solution).
ReplaySteps ==
  [k \in 1..Len(Supplied) |-> [uci |-> FALSE, move |-> Supplied[k], index |-> k - 1]]
  \o [k \in 1..Len(SuppliedSolution) |->
        [uci |-> TRUE, move |-> SuppliedSolution[k], index |-> k - 1]]

StepMoves(chess, step) ==
  IF step.uci THEN MovesByUci(chess, Slice(step.move, 0, 2), Slice(step.move, 2, 4))
              ELSE MovesBySan(chess, step.move)

\* The first step the rules engine rejects when the steps are replayed from
\* chess, if any.
RECURSIVE FirstRejected(_, _)
FirstRejected(steps, chess) ==
  IF steps = <<>> THEN None
  ELSE IF StepMoves(chess, Head(steps)) = {} THEN Some(Head(steps))
  ELSE FirstRejected(Tail(steps),
                     AfterMove(chess, CHOOSE m \in StepMoves(chess, Head(steps)) : TRUE))

Rejected == FirstRejected(ReplaySteps, NewGame)

\* The load has run the builder on the served record (the request did not fail).
BuildRan ==
  /\ IsSome(loadedPuzzleId) /\ fetches = <<>> /\ ~loading
  /\ Supplied # <<>>
  /\ error # Some(FetchFailed(Val(loadedPuzzleId)))

ErrorCarriesMove(e, move) == Concat(e.args) = move
ErrorCarriesIndex(e, index) == \E k \in 1..Len(e.args) : e.args[k] = NumStr(index)

\* C3: every Timeline the builder produces has blunderIndex equal to the
\* number of supplied moves before the last one, and as many entries as
\* blunderIndex + 1 + the number of supplied solution moves.
C3_TimelineShape ==
  (BuildRan /\ error = None /\ IsSome(puzzle)) =>
     /\ blunderMoveIndex = Len(Supplied) - 1
     /\ Len(allMoves) = blunderMoveIndex + 1 + Len(SuppliedSolution)

\* C4: when the rules engine rejects a replay step, the build aborts with
\* an error carrying the rejected move and its index; no puzzle and no
\* Timeline come out of it.
C4_IllegalStepAborts ==
  (BuildRan /\ IsSome(Rejected)) =>
     /\ IsSome(error)
     /\ ErrorCarriesMove(Val(error), Val(Rejected).move)
     /\ ErrorCarriesIndex(Val(error), Val(Rejected).index)
     /\ puzzle = None
     /\ allMoves = <<>>

\* The last supplied move is the first one the rules engine rejects.
BlunderRejected ==
  /\ IsSome(Rejected)
  /\ ~Val(Rejected).uci
  /\ Val(Rejected).index = Len(Supplied) - 1

\* C5: when the last supplied move (the blunder) is illegal where the moves
\* before it lead, the build ends in an error that references that move's
\* index, and neither a Timeline nor a puzzle is populated.
C5_IllegalBlunderFails ==
  (BuildRan /\ BlunderRejected) =>
     /\ IsSome(error)
     /\ ErrorCarriesIndex(Val(error), Val(Rejected).index)
     /\ puzzle = None
     /\ allMoves = <<>>
     /\ blunderMoveIndex = -1

\* What does hold of an illegal blunder: the build ends in an error naming
\* the move, and nothing of the record is populated.
IllegalBlunderNeverBuilds ==
  (BuildRan /\ BlunderRejected) =>
     /\ IsSome(error)
     /\ ErrorCarriesMove(Val(error), Val(Rejected).move)
     /\ puzzle = None
     /\ allMoves = <<>>
     /\ blunderMoveIndex = -1

\* C11: every non-negative difference gets exactly one message, by the
\* bands 0..50, 51..100, 101..200, 201..300, 301..500 and above 500.
C11_MessageBands ==
  IsSome(fbMessage) =>
    /\ (fbDiff \in 0..50)    <=> (Val(fbMessage) = "Incredible! Almost exact!")
    /\ (fbDiff \in 51..100)  <=> (Val(fbMessage) = "Excellent guess!")
    /\ (fbDiff \in 101..200) <=> (Val(fbMessage) = "Very close!")
    /\ (fbDiff \in 201..300) <=> (Val(fbMessage) = "Not bad!")
    /\ (fbDiff \in 301..500) <=> (Val(fbMessage) = "Could be closer...")
    /\ (fbDiff > 500)        <=> (Val(fbMessage) = "Way off!")

\* A difference on a threshold and one beyond the last were shown a message.
C11_Witness ==
  /\ fbDiff \in {50, 100, 200, 300, 500, 501}
  /\ IsSome(fbMessage)
  /\ (fbDiff = 501) => (Val(fbMessage) = "Way off!")

\* The sample says the player who made the move is mated by force: the
\* sample is of the position after the move, where the opponent is to move
\* and mates.
MoverMated(ev) == IsSome(ev.mate) /\ Val(ev.mate) > 0

\* C12: a user move that gets its mover mated is answered 'also losing'
\* whatever the centipawn difference; a blunder that got its mover mated,
\* with a user move that does not, is answered 'avoids the disaster'.
C12_MatePriority ==
  IsSome(fbMessage) =>
    /\ MoverMated(Val(fbUserEval)) =>
          Val(fbMessage) = "That's also losing, but not the move played."
    /\ (MoverMated(Val(fbBlunderEval)) /\ ~MoverMated(Val(fbUserEval))) =>
          Val(fbMessage) = "Good thinking! That move avoids the disaster."

FeedbackBand(diff) ==
  IF diff > 200 THEN "That's actually a decent move! The game blunder was much worse."
  ELSE IF diff \in 51..200 THEN "That's slightly better than what was played."
  ELSE IF diff \in -49..50
  THEN "That's about as bad as the game blunder, but not the one played."
  ELSE IF diff \in -199..-50 THEN "That's also a mistake, but the game blunder was worse."
  ELSE "That's also a blunder, but not the one from the game."

\* C13: when neither move got its mover mated, the message is the band of
\* diff = userEval.score - blunderEval.score.
C13_DiffBands ==
  (/\ IsSome(fbMessage)
   /\ ~MoverMated(Val(fbUserEval))
   /\ ~MoverMated(Val(fbBlunderEval))) =>
     Val(fbMessage) = FeedbackBand(Val(fbUserEval).score - Val(fbBlunderEval).score)

\* What does hold of the bands: they classify every pair of samples that
\* takes none of the two mate branches of getMoveFeedback.
DiffBandsPastMateBranches ==
  (/\ IsSome(fbMessage)
   /\ Val(fbMessage) # "That's also losing, but not the move played."
   /\ Val(fbMessage) # "Good thinking! That move avoids the disaster.") =>
     Val(fbMessage) = FeedbackBand(Val(fbUserEval).score - Val(fbBlunderEval).score)

\* The engine takes a line of the given type from the worker.
Receives(type) ==
  wOutbox # <<>> /\ Head(wOutbox).type = type /\ wOutbox' = Tail(wOutbox)

\* The EvalResult made of the accumulator and the move of the bestmove line.
AccumulatedResult(line) ==
  [score    |-> IF IsSome(currentEval.score) THEN Val(currentEval.score) ELSE 0,
   mate     |-> currentEval.mate,
   bestMove |-> IF line.move = <<>> THEN None ELSE Some(line.move),
   depth    |-> IF IsSome(currentEval.depth) THEN Val(currentEval.depth) ELSE 0]

\* The step resolves the promise of call i.
Resolves(i) == evals[i].state # "resolved" /\ evals'[i].state = "resolved"

NewInstance == Len(fetches') > Len(fetches)

\* The phase changes the rating-guess variant allows.
PhaseTable ==
  { <<"animating", "guessing">>, <<"guessing", "revealed">>,
    <<"revealed", "findingBetterMove">>, <<"revealed", "finalResult">>,
    <<"findingBetterMove", "finalResult">> }

\* C18: the phase changes only along the table; a new instance starts in
\* 'animating' (Presenting), and leaves it only when its own playback ends,
\* which it can only do once its puzzle is on the page.
C18_PhaseTransitions ==
  [][/\ NewInstance => phase' = "animating"
     /\ (~NewInstance /\ phase' # phase) => <<phase, phase'>> \in PhaseTable
     /\ (~NewInstance /\ phase = "animating" /\ phase' # phase) =>
          (Rendered /\ isAnimating /\ ~isAnimating')]_vars

\* What does hold: the buttons and the board move the phase along the table.
PhaseTableOfUserEvents ==
  [][(phase' # phase /\ conts' = conts /\ timers' = timers /\ ~NewInstance) =>
        <<phase, phase'>> \in PhaseTable]_vars

\* The step runs the continuation k of an evaluation.
Continues(k) == k \in 1..Len(conts) /\ conts' = RemoveAt(conts, k)

\* C19: the completion of an evaluation that a torn-down session asked for
\* writes none of the baseline sample, the user-move sample, the move
\* points, the accumulated points and the phase.
C19_StaleCompletionDiscarded ==
  [][\A k \in 1..Len(conts) :
       (Continues(k) /\ conts[k].stale) =>
          UNCHANGED <<bestMoveEval, userMoveEval, movePoints, totalMovePoints, phase>>]_vars

\* C20: when the evaluation of the user's move fails, the accumulated move
\* points, the stored counters and the Timeline stay as they were; when it
\* succeeds, the points are added in memory and stored in the same step.
C20_FailedGradingCountsNothing ==
  [][\A k \in 1..Len(conts) :
       (Continues(k) /\ conts[k].kind = "userMoveEval") =>
          IF evals[conts[k].eval].state = "rejected"
          THEN UNCHANGED <<totalMovePoints, movePoints, storage, allMoves, blunderMoveIndex,
                           totalGuesses, totalDifference, streak, bestStreak>>
          ELSE /\ totalMovePoints' = totalMovePoints + movePoints'
               /\ IsSome(storage')
               /\ Val(storage').totalMovePoints = totalMovePoints'
               /\ Val(storage').totalGuesses = totalGuesses'
               /\ Val(storage').totalDifference = totalDifference'
               /\ Val(storage').bestStreak = bestStreak'
               /\ UNCHANGED <<allMoves, blunderMoveIndex>>]_vars

\* A move was made and its evaluation has failed: the result panel shows
\* the move, no sample and no points.
C20_Witness ==
  /\ phase = "finalResult" /\ ~evaluatingMove
  /\ IsSome(userMoveSan) /\ userMoveEval = None
  /\ \A k \in 1..Len(conts) : conts[k].kind # "userMoveEval"
  /\ totalMovePoints = 0 /\ IsSome(storage) /\ Val(storage).totalMovePoints = 0

\* A move was graded: its points are in memory and in the store.
GradedMoveStored ==
  /\ IsSome(userMoveEval) /\ movePoints > 0
  /\ totalMovePoints = movePoints /\ Val(storage).totalMovePoints = movePoints

\* C15: a built puzzle has no opponent setup move exactly when fewer than
\* two moves were supplied; with two or more it is the second-to-last
\* supplied move; a blunder at index 0 comes with an empty history.
C15_OpponentSetupMove ==
  (BuildRan /\ error = None /\ IsSome(puzzle)) =>
     LET p == Val(puzzle)
         n == Len(Supplied)
     IN  /\ (p.opponentLastMove = None) <=> (n < 2)
         /\ n >= 2 => /\ IsSome(p.opponentLastMove)
                       /\ Val(p.opponentLastMove).san = strippedSan(Supplied[n - 1])
         /\ blunderMoveIndex = 0 => p.gameMoves = <<>>

\* What does hold: the same when the rules engine throws on an illegal move,
\* and whenever every supplied move was legal.
OpponentSetupMoveOfLegalLists ==
  (BuildRan /\ error = None /\ IsSome(puzzle)
     /\ (chessThrows \/ Rejected = None \/ Val(Rejected).uci)) =>
     LET p == Val(puzzle)
         n == Len(Supplied)
     IN  /\ (p.opponentLastMove = None) <=> (n < 2)
         /\ n >= 2 => /\ IsSome(p.opponentLastMove)
                       /\ Val(p.opponentLastMove).san = strippedSan(Supplied[n - 1])
         /\ blunderMoveIndex = 0 => p.gameMoves = <<>>

\* The last load has built the record of the scenario: move list
\* e4 e5 Qh5??, solution d8h4.
ScenarioBuilt ==
  /\ ~loading
  /\ error = None
  /\ IsSome(puzzle)
  /\ PgnMoves(Val(puzzle).rawResponse.game.pgn) = <<SanE4, SanE5, SanQh5 \o <<"?", "?">> >>
  /\ Val(puzzle).solutionUci = << <<"d", "8", "h", "4">> >>

ScenarioShape(length) ==
  /\ Len(allMoves) = length
  /\ blunderMoveIndex = 2
  /\ IsSome(Val(puzzle).opponentLastMove)
  /\ Val(Val(puzzle).opponentLastMove).san = SanE5
  /\ allMoves[Len(allMoves)].san = <<"Q", "h", "4">>
  /\ allMoves[Len(allMoves)].from = <<"d", "8">>
  /\ allMoves[Len(allMoves)].to = <<"h", "4">>

\* C14 as stated: the scenario record builds a Timeline of length 3 with
\* blunderIndex 2, opponent setup move e5 and the solution move, in the
\* rules engine's notation, last.
C14_ScenarioLength3 == ScenarioBuilt => ScenarioShape(3)

\* C14, amended: the Timeline has length 4 (two moves of history, the
\* blunder at index 2 in the rules engine's notation Qh5, the solution move
\* Qh4 last), blunderIndex 2 and opponent setup move e5.
C14_ScenarioLength4 ==
  ScenarioBuilt =>
    /\ ScenarioShape(4)
    /\ allMoves[blunderMoveIndex + 1].san = SanQh5
    /\ Val(puzzle).blunderSan = SanQh5

C14_Witness == ScenarioBuilt /\ Len(allMoves) = 4 /\ phase = "guessing"

\* The init timeout fires and finds the engine not ready.
InitTimesOut == timeoutTimer /\ ~timeoutTimer' /\ ~isReady /\ initPromise = "pending"

\* init() has failed and the engine has not become ready since.
InitFailed == initPromise = "rejected" /\ ~isReady

\* A step of handleMove that takes a move other than the game's.
WrongGuess == attempts' = attempts + 1 /\ lastGuessCorrect' = Some(FALSE)

\* C17: when the init timeout fires and the engine is not ready, every
\* evaluate() call waiting on init() is rejected with the initialization
\* error, and once init() has failed no call waits on it any more.  The page
\* goes on: while the engine stays unavailable it has no baseline and never
\* waits for an evaluation, and a wrong guess is answered at once with
\* "That's not the blunder. Try again!" without a call to the engine.
C17_InitFailureRecoverable ==
  /\ [](/\ initPromise = "rejected" =>
             \A i \in 1..Len(evals) : evals[i].state # "awaitInit"
        /\ InitFailed => blunderEval = None /\ ~evaluating)
  /\ [][/\ InitTimesOut =>
             \A i \in 1..Len(evals) :
               evals[i].state = "awaitInit" =>
                 evals'[i].state = "rejected" /\ evals'[i].error = Some("init")
        /\ InitFailed /\ WrongGuess =>
             /\ feedbackMessage' = Some(NotTheBlunder)
             /\ ~evaluating'
             /\ evals' = evals]_vars

\* The baseline evaluation was rejected by the init timeout, and a wrong
\* guess made afterwards got the fallback message.
C17_Witness ==
  /\ InitFailed /\ ~timeoutTimer
  /\ \E i \in 1..Len(evals) : evals[i].state = "rejected" /\ evals[i].error = Some("init")
  /\ lastGuessCorrect = Some(FALSE)
  /\ feedbackMessage = Some(NotTheBlunder)
  /\ conts = <<>>

\* After the failure the game's move is still accepted as the answer.
SolvedAfterInitFailure == InitFailed /\ ~timeoutTimer /\ solved /\ attempts = 2

\* The board takes a move: interactive={!solved && !playingSolution}.
BoardTakesGuess == Rendered /\ ~solved

\* A wrong guess that handleMove takes while it has no baseline sample.
GuessWithoutBaseline == WrongGuess /\ blunderEval = None

\* C21: a wrong guess made while the page has no baseline sample is
\* answered at once with "That's not the blunder. Try again!", without a
\* call to the engine and without waiting for one; so whenever the board
\* takes moves and there is no baseline, handleMove is not held back by a
\* pending evaluation, and after the answer the next guess is not either.
C21_FallbackWithoutWaiting ==
  /\ [](BoardTakesGuess /\ blunderEval = None => ~evaluating)
  /\ [][GuessWithoutBaseline =>
          /\ feedbackMessage' = Some(NotTheBlunder)
          /\ ~evaluating'
          /\ evals' = evals]_vars

\* What handleMove does with a wrong guess it takes while there is no
\* baseline sample.
FallbackOfGuessesTaken ==
  [][GuessWithoutBaseline =>
       /\ feedbackMessage' = Some(NotTheBlunder)
       /\ ~evaluating'
       /\ evals' = evals
       /\ timers' = Append(timers, ResetTimer)]_vars

\* The board of a new puzzle takes moves while the page still waits for the
\* evaluation of a guess at the previous puzzle, and the engine has nothing
\* left to say: handleMove returns at once, now and later.
GuessesHeldBackForGood ==
  /\ BoardTakesGuess /\ evaluating /\ attempts = 0
  /\ pendingEval = None /\ wInbox = <<>> /\ wOutbox = <<>> /\ wSearch = None
  /\ fetches = <<>> /\ randomFetches = 0

\* The baseline request of the puzzle on the page is still outstanding.
BaselineOutstanding ==
  \E j \in 1..Len(conts) :
    /\ conts[j].kind = "bestMoveEval" /\ ~conts[j].stale
    /\ Unsettled(evals[conts[j].eval])

\* The step grades the user's move: handleBetterMove goes on after its await
\* with a sample (the continuation k).
GradesMove(k) ==
  /\ Continues(k) /\ conts[k].kind = "userMoveEval"
  /\ evals[conts[k].eval].state = "resolved"

\* The step takes the resolver of the unsettled call i out of the engine.
Displaces(i) ==
  /\ pendingEval = Some(i) /\ Unsettled(evals[i])
  /\ pendingEval' # Some(i) /\ Unsettled(evals'[i])

\* C22: a move made in FreePlay before the baseline has resolved is graded
\* only once the baseline is there: no grading step runs with bestMoveEval
\* null while the baseline request is outstanding, and the request for the
\* user's move does not take the baseline request's place in the engine.
C22_WaitsForBaseline ==
  [][/\ \A k \in 1..Len(conts) :
          GradesMove(k) => ~(bestMoveEval = None /\ BaselineOutstanding)
     /\ \A j \in 1..Len(conts) :
          conts[j].kind = "bestMoveEval" => ~Displaces(conts[j].eval)]_vars

\* A move was graded against no baseline, the baseline request having lost
\* its place in the engine: it got no points although it is the move the
\* engine named.
GradedWithoutBaseline ==
  /\ phase = "finalResult" /\ IsSome(userMoveEval) /\ bestMoveEval = None
  /\ BaselineOutstanding /\ pendingEval = None
  /\ wInbox = <<>> /\ wOutbox = <<>> /\ wSearch = None
  /\ movePoints = 0

\* The evaluate() calls that are neither resolved nor rejected.
InFlight == {i \in 1..Len(evals) : Unsettled(evals[i])}

\* C23: the pages' requests to the engine are serialized: at most one
\* evaluate() call is unsettled at any time, and a step that issues a call
\* finds every earlier one settled (the pages never call stop()).
C23_RequestsSerialized ==
  /\ [](Cardinality(InFlight) <= 1)
  /\ [][Len(evals') > Len(evals) => InFlight = {}]_vars

\* C24: an evaluate() issued after stop() cancelled the outstanding call is
\* resolved only by the bestmove line of its own search, never by the one
\* that ends the cancelled search.
C24_CancelledSearchResolvesNothing ==
  \A i \in 1..Len(evals) :
    (evals[i].afterStop /\ evals[i].state = "resolved") =>
       evals[i].src = Some(evals[i].fen)

\* The bestmove line of the cancelled search was handled before the next
\* call was issued: it resolved the cancelled call, and the next call got
\* the line of its own search.
CancelledBeforeNextCall ==
  \E i \in 1..Len(evals) :
    /\ ~evals[i].afterStop /\ ~evals[i].busy /\ i > 1
    /\ stopsSent > 0
    /\ evals[i].state = "resolved" /\ evals[i].src = Some(evals[i].fen)
    /\ evals[i - 1].state = "resolved" /\ evals[i - 1].fen # evals[i].fen

\* The step is skipBetterMove(): the "Skip" button of Revealed or FreePlay.
Skips ==
  /\ phase \in {"revealed", "findingBetterMove"} /\ phase' = "finalResult"
  /\ conts' = conts

\* C25: 'skip' puts the instance in Final without a graded move and without
\* touching the points, and while the instance stays in Final its move
\* points and the accumulated move points do not change, whether or not an
\* evaluation of a move was in flight when the button was pressed.
C25_SkipFreezesPoints ==
  [][/\ Skips => (userMoveEval' = None /\ UNCHANGED <<movePoints, totalMovePoints>>)
     /\ (phase = "finalResult" /\ phase' = "finalResult") =>
          UNCHANGED <<movePoints, totalMovePoints>>]_vars

\* What does hold: in Final with no evaluation of a move in flight, the
\* points stay.
PointsFrozenInFinal ==
  [][(phase = "finalResult" /\ phase' = "finalResult" /\ ~evaluatingMove) =>
        UNCHANGED <<movePoints, totalMovePoints, storage>>]_vars

\* 'Skip' was pressed while the move's evaluation was in flight, and the
\* move was graded in Final all the same.
GradedAfterSkip ==
  /\ phase = "finalResult" /\ ~evaluatingMove /\ conts = <<>>
  /\ IsSome(userMoveEval) /\ movePoints = 100 /\ totalMovePoints = 100
  /\ IsSome(bestMoveEval)

\* The step counts a guess: handleMove has accepted a move of the board.
GuessCounted == attempts' = attempts + 1

\* C26: while the player reviews the history (viewingHistory, until 'Return
\* to puzzle') no move of the board is counted as a guess, graded, or solves
\* the puzzle.
C26_NoGuessInReview ==
  [][viewingHistory =>
       /\ ~GuessCounted
       /\ lastGuessCorrect' = lastGuessCorrect \/ lastGuessCorrect' = None]_vars

\* A guess made from a reviewed position solved the puzzle.
SolvedInReview ==
  viewingHistory /\ solved /\ lastGuessCorrect = Some(TRUE) /\ attempts = 1

\* A move made in an earlier position of the game was counted as a wrong guess.
GuessedInEarlierPosition ==
  /\ viewingHistory /\ ~solved /\ attempts = 1 /\ lastGuessCorrect = Some(FALSE)
  /\ Rendered /\ currentFen # Val(puzzle).preFen

\* The step is revealSolution(): the puzzle becomes solved without a guess
\* being counted.
Reveals == ~solved /\ solved' /\ attempts' = attempts

\* The step is useHint().
TakesHint == ~hintUsed /\ hintUsed'

\* The step begins a puzzle instance: loadPuzzle starts, or a response puts
\* another puzzle on the page.
NewBlunderInstance == puzzle' # puzzle \/ Len(fetches') > Len(fetches)

AcceptsGuess == displayLastMoveColor = "red" /\ displayLastMoveColor' = "green"

\* The move of the accepted guess leads to the position after the blunder.
GuessMatches ==
  \E m \in LegalMoves(ChessLoad(currentFen)) :
    /\ lastGuessSan' = Some(m.san)
    /\ fenPositionsMatch(ChessFen(AfterMove(ChessLoad(currentFen), m)), Val(puzzle).fen)

\* The step is the reset timer firing.
ResetFires ==
  \E k \in 1..Len(timers) : timers[k] = ResetTimer /\ timers' = RemoveAt(timers, k)

\* The board shows a wrong guess: the guessed move is painted green on the
\* rendered, unsolved puzzle.
ShowsWrongGuess ==
  Rendered /\ ~solved /\ lastGuessCorrect = Some(FALSE) /\ displayLastMoveColor = "green"

\* The board shows the puzzle's position, the opponent's move painted red.
BoardAtPreFen ==
  /\ IsSome(puzzle) /\ currentFen = Val(puzzle).preFen
  /\ displayLastMoveColor = "red"

\* Every guess handleMove accepts adds exactly one to attempts; a guess that
\* reaches the position after the blunder solves the puzzle, any other leaves
\* it unsolved; the reset timer, when it fires, puts the board back at preFen.
GuessCountedOnce ==
  [][/\ AcceptsGuess =>
          /\ attempts' = attempts + 1
          /\ solved' = GuessMatches
          /\ lastGuessCorrect' = Some(GuessMatches)
     /\ (attempts' # attempts /\ attempts' # 0) => AcceptsGuess
     /\ ResetFires => BoardAtPreFen' /\ UNCHANGED <<solved, attempts>>]_vars

\* C28: every accepted guess counts as one attempt, a matching guess solves
\* the puzzle and a wrong one leaves it unsolved, and a wrong guess on show
\* is always followed by the board back at preFen (or by the puzzle leaving
\* the page).
C28_GuessCountedBoardReset ==
  /\ GuessCountedOnce
  /\ ShowsWrongGuess ~> (BoardAtPreFen \/ ~Rendered)

\* The wrong guess stays on the board: its evaluation was displaced, nothing
\* is left to settle it and no reset timer was armed.
WrongGuessStaysOnBoard ==
  /\ ShowsWrongGuess /\ evaluating /\ timers = <<>>
  /\ pendingEval = None /\ wInbox = <<>> /\ wOutbox = <<>>
  /\ fetches = <<>> /\ randomFetches = 0

\* A wrong guess was shown and reset, and the second guess solved the puzzle.
SolvedOnSecondGuess ==
  /\ Rendered /\ solved /\ attempts = 2 /\ lastGuessCorrect = Some(TRUE)
  /\ timers = <<>> /\ ~evaluating
  /\ fenPositionsMatch(currentFen, Val(puzzle).fen)

\* The step is a navigation of the move list: the cursor moves and no timer
\* or response is behind it.
Navigates ==
  /\ currentMoveIndex' # currentMoveIndex
  /\ timers' = timers /\ fetches' = fetches

\* The blunder is the first move of the list and the cursor is on it.
OnFirstMoveBlunder ==
  /\ Rendered /\ phase = "guessing" /\ blunderMoveIndex = 0 /\ Len(allMoves) = 2
  /\ currentMoveIndex = 0 /\ currentFen = allMoves[1].fen

\* C29: a navigation by click or by key on the built move list leaves the
\* cursor within the navigable range: at least blunderIndex - 1 (0 when the
\* blunder is the first move) and at most the last index.
C29_CursorInNavigableRange ==
  [][Navigates =>
       /\ currentMoveIndex' >= (IF blunderMoveIndex = 0 THEN 0 ELSE blunderMoveIndex - 1)
       /\ currentMoveIndex' <= Len(allMoves) - 1
       /\ currentFen' = allMoves[currentMoveIndex' + 1].fen]_vars

\* The player went back to the move before the blunder after the playback.
C29_Witness ==
  /\ Rendered /\ phase = "guessing" /\ blunderMoveIndex = 2 /\ Len(allMoves) = 4
  /\ currentMoveIndex = 1 /\ currentFen = allMoves[2].fen

\* Presenting: the puzzle is on the page and its playback has not completed.
Presenting == Rendered /\ phase = "animating"

\* The step is one of the playback: a timer of startAnimation or of
\* animateToIndex fires.
PlaybackStep ==
  \E k \in 1..Len(timers) :
    /\ timers[k].fn \in {"startAnimation", "animateToIndex"}
    /\ \/ timers' = RemoveAt(timers, k)
       \/ \E t \in {timers'[Len(timers')]} : timers' = Append(RemoveAt(timers, k), t)

\* C30: during Presenting the cursor starts one move before the blunder (at
\* 0 when there is none) and then moves forward one move at a time up to the
\* last index, where the playback completes; nothing but the playback changes
\* the cursor or the position on the board meanwhile.
C30_PlaybackUndisturbed ==
  [][Presenting /\ fetches' = fetches /\ loading' = loading =>
       /\ (currentMoveIndex' # currentMoveIndex \/ currentFen' # currentFen)
            => PlaybackStep
       /\ PlaybackStep =>
            /\ currentMoveIndex' \in {currentMoveIndex, currentMoveIndex + 1}
            /\ currentMoveIndex' >= minNavigableIndex
            /\ currentFen' = allMoves[currentMoveIndex' + 1].fen
            /\ phase' # "animating" => currentMoveIndex' = Len(allMoves) - 1]_vars

\* What does hold: once startAnimation has run, only the playback moves the
\* cursor and the board, forward by one move up to the last.
PlaybackRunsToCompletion ==
  [][Presenting /\ isAnimating /\ fetches' = fetches /\ loading' = loading =>
       /\ (currentMoveIndex' # currentMoveIndex \/ currentFen' # currentFen)
            => PlaybackStep
       /\ PlaybackStep =>
            /\ currentMoveIndex' \in {currentMoveIndex, currentMoveIndex + 1}
            /\ phase' # "animating" => currentMoveIndex' = Len(allMoves) - 1]_vars

\* The playback has started with the cursor before the blunder while the
\* board shows the last position of the list, reached by a click before the
\* playback began.
PlaybackOverNavigatedBoard ==
  /\ Presenting /\ isAnimating /\ blunderMoveIndex = 2
  /\ currentMoveIndex = 1 /\ currentFen = allMoves[4].fen

\* The playback is over: the puzzle is on the page for guessing, the cursor
\* on the last move of the list.
PlaybackCompleted ==
  /\ Rendered /\ phase = "guessing" /\ ~isAnimating
  /\ currentMoveIndex = Len(allMoves) - 1

GuessingOnFirstMoveBlunder ==
  PlaybackCompleted /\ blunderMoveIndex = 0 /\ IsSome(bestMoveEval)

\* The step changes the record of rating guesses.
CountsGuess ==
  \/ totalGuesses' # totalGuesses
  \/ totalDifference' # totalDifference
  \/ streak' # streak

\* The step begins a puzzle instance: loadPuzzle starts.
LoadStarts == Len(fetches') > Len(fetches)

C32_Witness ==
  /\ Rendered /\ phase = "revealed" /\ streak = 2 /\ puzzleId = P2
  /\ IsSome(storage) /\ Val(storage).totalGuesses = totalGuesses

\* A step of submitGuess that grades a guess.
GuessGraded == phase = "guessing" /\ phase' = "revealed"

\* C10: submitGuess sets difference to |guess - actual|, makes the streak
\* priorStreak + 1 exactly when the difference is at most 200 and 0
\* otherwise, and the best streak max(priorBest, newStreak); so
\* (1500, 1500, 0, 0) gives difference 0 and streak 1, and (1900, 1200, 2, 5)
\* gives difference 700, streak 0 and best 5.
C10_RatingGrading ==
  [][GuessGraded =>
       LET guess  == eloGuess
           actual == Val(blunderingPlayer).rating
       IN  /\ actualElo' = actual
           /\ difference' = Abs(guess - actual)
           /\ (difference' <= 200) => streak' = streak + 1
           /\ (difference' > 200) => streak' = 0
           /\ bestStreak' = Max(bestStreak, streak')
           /\ (guess = 1500 /\ actual = 1500 /\ streak = 0 /\ bestStreak = 0)
                 => (difference' = 0 /\ streak' = 1)
           /\ (guess = 1900 /\ actual = 1200 /\ streak = 2 /\ bestStreak = 5)
                 => (difference' = 700 /\ streak' = 0 /\ bestStreak' = 5)]_vars

\* The third guess of a run that started with a stored best of 5: 1900
\* against 1200, after two close guesses (off by 100 and by 1).
C10_Witness ==
  /\ phase = "revealed"
  /\ eloGuess = 1900 /\ actualElo = 1200 /\ difference = 700
  /\ streak = 0 /\ bestStreak = 5
  /\ totalGuesses = 10 /\ totalDifference = 1701

\* C6: encodings that differ only in the halfmove clock and fullmove number
\* match; encodings that differ in piece placement, side to move, castling
\* rights or en-passant target do not.
C6_CountersIgnoredRestKept ==
  IsSome(fenMatch) =>
    /\ (KeptFields(fldA) = KeptFields(fldB) => Val(fenMatch).ab)
    /\ (\E k \in 1..4 : fldA[k] # fldB[k]) => ~Val(fenMatch).ab

\* A and B differ in both counters only and match; B and C differ in the
\* piece placement and do not.
C6_Witness ==
  /\ IsSome(fenMatch)
  /\ KeptFields(fldA) = KeptFields(fldB)
  /\ fldA[5] # fldB[5] /\ fldA[6] # fldB[6]
  /\ Val(fenMatch).ab
  /\ fldB[1] # fldC[1]
  /\ ~Val(fenMatch).bc

\* C7: positionsMatch is reflexive, symmetric and transitive.
C7_Equivalence ==
  IsSome(fenMatch) =>
    /\ Val(fenMatch).aa
    /\ Val(fenMatch).ab <=> Val(fenMatch).ba
    /\ (Val(fenMatch).ab /\ Val(fenMatch).bc) => Val(fenMatch).ac

\* Three pairwise different encodings that all match.
C7_Witness ==
  /\ IsSome(fenMatch)
  /\ fenA # fenB /\ fenB # fenC /\ fenA # fenC
  /\ Val(fenMatch).ab /\ Val(fenMatch).ba /\ Val(fenMatch).bc /\ Val(fenMatch).ac

MoveMatchesBest(uci) == IsSome(gBestEval) /\ Val(gBestEval).bestMove = Some(uci)
Graded(uci, ev) == ~MoveMatchesBest(uci) /\ IsSome(ev) /\ IsSome(gBestEval)
CentipawnLoss(ev) == (-Val(gBestEval).score) - (-Val(ev).score)

\* C8: a move equal to the known best move scores exactly 100 whatever the
\* samples hold (a missing user sample included), and among non-matching
\* moves the points never increase with the centipawn loss.
C8_ExactMatchAndMonotone ==
  IsSome(gPoints) =>
    /\ MoveMatchesBest(gMoveUci) => Val(gPoints)[1] = 100
    /\ MoveMatchesBest(gOtherUci) => Val(gPoints)[2] = 100
    /\ (Graded(gMoveUci, gUserEval) /\ Graded(gOtherUci, gOtherEval)
          /\ CentipawnLoss(gUserEval) <= CentipawnLoss(gOtherEval))
        => Val(gPoints)[1] >= Val(gPoints)[2]

\* The best move played with no user sample scores 100, next to a
\* non-matching move that loses more than 400 centipawns and scores 0.
C8_Witness ==
  /\ IsSome(gPoints)
  /\ MoveMatchesBest(gMoveUci) /\ gUserEval = None /\ Val(gPoints)[1] = 100
  /\ Graded(gOtherUci, gOtherEval) /\ CentipawnLoss(gOtherEval) > 400
  /\ Val(gPoints)[2] = 0

PointsBand(loss) ==
  CASE loss <= 0 -> 100
    [] loss > 0 /\ loss <= 25 -> 90
    [] loss > 25 /\ loss <= 50 -> 75
    [] loss > 50 /\ loss <= 100 -> 60
    [] loss > 100 /\ loss <= 200 -> 40
    [] loss > 200 /\ loss <= 400 -> 20
    [] loss > 400 -> 0

\* C9: a non-matching move with both samples present scores by the
\* breakpoints 0/25/50/100/200/400 of the centipawn loss, and every result
\* is one of 0, 20, 40, 60, 75, 90, 100.
C9_Breakpoints ==
  IsSome(gPoints) =>
    /\ Graded(gMoveUci, gUserEval) => Val(gPoints)[1] = PointsBand(CentipawnLoss(gUserEval))
    /\ Graded(gOtherUci, gOtherEval) => Val(gPoints)[2] = PointsBand(CentipawnLoss(gOtherEval))
    /\ Val(gPoints)[1] \in {0, 20, 40, 60, 75, 90, 100}
    /\ Val(gPoints)[2] \in {0, 20, 40, 60, 75, 90, 100}

\* Two non-matching moves exactly on the breakpoints 25 and 400.
C9_Witness ==
  /\ IsSome(gPoints)
  /\ Graded(gMoveUci, gUserEval) /\ CentipawnLoss(gUserEval) = 25 /\ Val(gPoints)[1] = 90
  /\ Graded(gOtherUci, gOtherEval) /\ CentipawnLoss(gOtherEval) = 400 /\ Val(gPoints)[2] = 20

\* The baseline sample is taken at preFen, where the mover is to move: its
\* score is already the mover's.  The move's sample is taken after the move,
\* where the opponent is to move: the mover's value is its negation.
MoverLoss(userEval) == Val(gBestEval).score - (-Val(userEval).score)

\* C33: a non-matching move scores by the band of b - u, with b the
\* baseline's score for the mover and u the mover's value of the position
\* after the move; so u >= b scores 100 and b - u > 400 scores 0, whatever
\* the sign of b.
C33_LossFromMoversPerspective ==
  IsSome(gPoints) =>
    /\ Graded(gMoveUci, gUserEval) =>
         Val(gPoints)[1] = PointsBand(MoverLoss(gUserEval))
    /\ Graded(gOtherUci, gOtherEval) =>
         Val(gPoints)[2] = PointsBand(MoverLoss(gOtherEval))

\* With the baseline level (b = 0) the two readings of the loss agree.
LevelBaselineGradedByLoss ==
  (IsSome(gPoints) /\ Graded(gMoveUci, gUserEval) /\ Val(gBestEval).score = 0) =>
     Val(gPoints)[1] = PointsBand(MoverLoss(gUserEval))

\* The mover stood 150 better before the move and is 401 worse after it (a
\* loss of 551), and the move scores 20.
LosingMoveScores20 ==
  /\ IsSome(gPoints)
  /\ Graded(gMoveUci, gUserEval) /\ Val(gBestEval).score = 150
  /\ Val(gUserEval).score = 401 /\ Val(gPoints)[1] = 20

\* The value of a sample for the player who moved: both samples are scores
\* for the side to move after the move, the opponent.
MoverValue(sample) == -sample.score

SaysBetter ==
  {"That's actually a decent move! The game blunder was much worse.",
   "That's slightly better than what was played."}
SaysBlunder == {"That's also a blunder, but not the one from the game."}

\* C34: the feedback says 'decent move, the game blunder was much worse' or
\* 'slightly better' only when the user's move leaves the mover better off
\* than the game's blunder did, and 'also a blunder' only when it leaves the
\* mover worse off.
C34_FeedbackFromMoversPerspective ==
  IsSome(fbMessage) =>
    /\ Val(fbMessage) \in SaysBetter =>
         MoverValue(Val(fbUserEval)) > MoverValue(Val(fbBlunderEval))
    /\ Val(fbMessage) \in SaysBlunder =>
         MoverValue(Val(fbUserEval)) < MoverValue(Val(fbBlunderEval))

\* What the code does: the comparison is made on the opponent's scores.
FeedbackFromOpponentsScores ==
  IsSome(fbMessage) =>
    /\ Val(fbMessage) \in SaysBetter =>
         Val(fbUserEval).score > Val(fbBlunderEval).score + 50
    /\ Val(fbMessage) \in SaysBlunder =>
         Val(fbUserEval).score <= Val(fbBlunderEval).score - 200

\* After the game's blunder the position is level; after the user's move the
\* opponent is 500 ahead, and the page calls it a decent move.
LosingMoveCalledDecent ==
  /\ fbMessage = Some("That's actually a decent move! The game blunder was much worse.")
  /\ Val(fbBlunderEval).score = 0 /\ Val(fbBlunderEval).mate = None
  /\ Val(fbUserEval).score = 500 /\ Val(fbUserEval).mate = None

\* ---------------------------------------------------------------------
\* C35  Navigation and the Timeline
\* ---------------------------------------------------------------------

\* The step is a navigation of the move list of the find-the-blunder page:
\* the cursor moves, or the page enters or leaves review mode, and no
\* response or timer is behind it.
BlunderNavigates ==
  /\ OnBlunderPage
  /\ currentMoveIndex' # currentMoveIndex \/ viewingHistory' # viewingHistory
  /\ timers' = timers /\ fetches' = fetches

\* The Timeline of the open puzzle: the move sequence, blunderIndex,
\* preBlunderPosition, postBlunderPosition and the solution moves.  The
\* rating-guess page keeps the sequence in allMoves and blunderMoveIndex, the
\* find-the-blunder page reads it off the puzzle record.
Timeline == <<puzzle, allMoves, blunderMoveIndex>>

\* Everything but the cursor, the displayed position and the highlight.
NavigationFrame ==
  <<puzzleId, loadedPuzzleId, loading, error, phase, isAnimating, fetches,
    randomFetches, timers, conts, guessVars, bestMoveEval, userMoveEval,
    userMoveSan, bestMoveSan, movePoints, evaluatingMove, solved, attempts,
    lastGuessSan, lastGuessCorrect, feedbackMessage, evaluating, blunderEval,
    displayLastMoveColor, hintUsed, solutionVars, worldVars, engineVars,
    workerVars>>

\* C35: a history navigation, on either page, changes only the cursor (with
\* the review-mode flag of the find-the-blunder page), the displayed position
\* and the last-move highlight; the move sequence, blunderIndex,
\* preBlunderPosition, postBlunderPosition and the solution moves stay as
\* they were built.
C35_NavigationKeepsTimeline ==
  [][(OnRatingPage /\ Navigates) \/ BlunderNavigates
       => /\ Timeline' = Timeline
          /\ NavigationFrame' = NavigationFrame]_vars

\* The rating-guess page after the guess, stepped back to the move before
\* the blunder, with the whole move list still there.
NavigatedBackOnFullTimeline ==
  /\ OnRatingPage /\ Rendered /\ phase = "revealed"
  /\ blunderMoveIndex > 0 /\ currentMoveIndex = blunderMoveIndex - 1
  /\ Len(allMoves) > blunderMoveIndex
  /\ currentFen = allMoves[currentMoveIndex + 1].fen

\* The find-the-blunder page in review mode on the first move of the game.
ReviewingFirstMove ==
  /\ OnBlunderPage /\ Rendered /\ viewingHistory /\ currentMoveIndex = 0
  /\ currentFen = Val(puzzle).gameMoves[1].fen

\* ---------------------------------------------------------------------
\* C36  Overlapping puzzle loads
\* ---------------------------------------------------------------------

\* Every load that was started has settled and a puzzle is on the page.
LoadsSettled == fetches = <<>> /\ Rendered /\ loadedPuzzleId = Some(puzzleId)

\* The page shows the puzzle of the route, with the Timeline built from it.
ShowsRoutePuzzle ==
  /\ Val(puzzle).id = puzzleId
  /\ allMoves = buildMovesList(Val(puzzle), <<>>, chessThrows).allMoves
  /\ blunderMoveIndex = Len(Val(puzzle).gameMoves)

\* The step is the arrival of the response of a load the route has left.
LateResponse ==
  \E k \in 1..Len(fetches) :
    fetches' = RemoveAt(fetches, k) /\ fetches[k] # puzzleId

\* The step leaves the page as it was: puzzle, Timeline, cursor, board,
\* phase and timers.
ResponseDiscarded ==
  UNCHANGED <<puzzle, allMoves, blunderMoveIndex, currentMoveIndex, currentFen,
              displayLastMove, phase, isAnimating, timers>>

\* C36: when a load for one id still awaits its data while a load for
\* another starts, then after both have settled the page shows the puzzle
\* and Timeline of the route's id only; the late response of the other load
\* is discarded in whatever order the two arrive, and arms no playback timer
\* that could move the cursor or the phase of the puzzle shown.
C36_LateLoadDiscarded ==
  /\ [](LoadsSettled => ShowsRoutePuzzle)
  /\ [][LateResponse => ResponseDiscarded]_vars

\* Both loads have settled and the page shows the puzzle the route has left.
ShowsLeftPuzzle == LoadsSettled /\ Val(puzzle).id # puzzleId

\* Both loads have settled on the route's puzzle, and two playback timers
\* are pending: the one of the load the route has left among them.
TwoPlaybacksArmed ==
  /\ LoadsSettled /\ Val(puzzle).id = puzzleId
  /\ Len(timers) = 2

\* ---------------------------------------------------------------------
\* C38  Solution playback of the find-the-blunder page
\* ---------------------------------------------------------------------

\* The position after the first n solution moves, made one after the other
\* from postBlunderPosition (puzzle.fen).
RECURSIVE SolutionPosition(_, _)
SolutionPosition(p, n) ==
  IF n = 0 THEN ChessLoad(p.fen)
  ELSE LET before == SolutionPosition(p, n - 1)
           uci    == p.solutionUci[n]
       IN  AfterMove(before, CHOOSE m \in MovesByUci(before, Slice(uci, 0, 2),
                                                      Slice(uci, 2, 4)) : TRUE)

\* The step plays a solution move.
PlaysSolutionMove == solutionStep' = solutionStep + 1

\* The step ends a playback of the puzzle on the page.
PlaybackEnds == playingSolution /\ ~playingSolution' /\ fetches' = fetches

\* A playback timer is pending.
PlaybackArmed == \E k \in 1..Len(timers) : timers[k] = SolutionTimer

\* C38: a solution playback started in Solved makes the solution moves in
\* order from postBlunderPosition and ends on the position after the last of
\* them, and it always ends with playingSolution false, whatever history
\* navigation, "Return to puzzle" and pending reset timers do meanwhile.
C38_SolutionPlaysInOrder ==
  /\ [][/\ PlaysSolutionMove =>
             currentFen' = ChessFen(SolutionPosition(Val(puzzle), solutionStep'))
        /\ PlaybackEnds =>
             /\ solutionStep' = Len(Val(puzzle).solutionUci)
             /\ currentFen' = ChessFen(SolutionPosition(Val(puzzle), solutionStep'))]_vars
  /\ (playingSolution ~> ~playingSolution)

\* A playback ran to its end undisturbed: both moves made, the last position
\* on the board.
SolutionPlayedToEnd ==
  /\ Rendered /\ solved /\ showSolution /\ ~playingSolution
  /\ solutionStep = 2
  /\ currentFen = ChessFen(SolutionPosition(Val(puzzle), 2))

\* A playback made its second move in a position the board was put to
\* meanwhile: both moves counted, another position on the board.
SolutionPlayedOffLine ==
  /\ Rendered /\ solved /\ showSolution /\ ~playingSolution /\ ~viewingHistory
  /\ solutionStep = 2
  /\ currentFen # ChessFen(SolutionPosition(Val(puzzle), 2))
  /\ ~PlaybackArmed

\* A playback that no timer continues and nothing ends.
PlaybackStuck == Rendered /\ playingSolution /\ ~PlaybackArmed

\* The fair steps of the page with its solution playback are the steps of
\* its two timer callbacks, and no other step of the page is one.
TimerStepsAreCallbacks ==
  [][<<SolutionTimerStep>>_playbackVars
       <=> ((PlaySolutionStep \/ ResetBoard) /\ UNCHANGED BlunderOther)]_vars

\* ---------------------------------------------------------------------
\* C37  The board of a solved puzzle
\* ---------------------------------------------------------------------

\* The positions a solved puzzle shows: postBlunderPosition and the
\* positions of the solution playback.
SolvedPositions(p) ==
  {p.fen} \cup {ChessFen(SolutionPosition(p, n)) : n \in 0..Len(p.solutionUci)}

\* The step runs the reset timer of a wrong guess of the puzzle on the page.
ResetFiresInInstance == ResetTimerFires /\ fetches' = fetches /\ puzzle' = puzzle

\* C37: once the puzzle is solved, by the right guess or by the reveal, no
\* reset timer of an earlier wrong guess, pending or armed when the guess's
\* evaluation completes, puts the board back to preBlunderPosition; outside
\* the review of the move list a solved puzzle shows postBlunderPosition or
\* a position of the solution playback.
C37_SolvedBoardStays ==
  /\ [][solved /\ ResetFiresInInstance => currentFen' = currentFen]_vars
  /\ [](Rendered /\ solved /\ ~viewingHistory
          => \E f \in SolvedPositions(Val(puzzle)) : fenPositionsMatch(currentFen, f))

\* A wrong guess, then the hint and the reveal within the 1500 ms of its
\* reset timer, and no navigation: the timer has put preBlunderPosition back
\* on the board of the solved puzzle.
SolvedBoardReset ==
  /\ Rendered /\ solved /\ hintUsed /\ ~viewingHistory
  /\ attempts = 1 /\ lastGuessCorrect = Some(FALSE)
  /\ currentFen = Val(puzzle).preFen
  /\ currentMoveIndex = -1
  /\ timers = <<>>

\* ---------------------------------------------------------------------
\* C39  The evaluating flag of the find-the-blunder page
\* ---------------------------------------------------------------------

\* C39: the evaluating flag is always cleared again: after every wrong guess,
\* and also when another puzzle is loaded while the guess's evaluation is
\* pending, the page comes back to a state in which handleMove takes a
\* guess, the worker answering every search it is given.
C39_EvaluatingCleared == evaluating ~> ~evaluating

\* The evaluation of a wrong guess was asked for, the worker has answered
\* every search and has nothing left to do, and the flag is still set.
EvaluatingForGood ==
  /\ evaluating
  /\ pendingEval = None /\ wInbox = <<>> /\ wOutbox = <<>> /\ wSearch = None
  /\ fetches = <<>> /\ randomFetches = 0 /\ timers = <<>>
  /\ \A k \in 1..Len(conts) : Unsettled(evals[conts[k].eval])

(***************************************************************************)
(* C40: processLichessPuzzle and buildMovesList replay the same record.    *)
(***************************************************************************)
\* The Timeline entry at 0-based index i.
TimelineEntry(i) == allMoves[i + 1]

\* The blunder's entry gives the puzzle position.
BlunderEntryMatches ==
  /\ Len(allMoves) > blunderMoveIndex
  /\ fenPositionsMatch(TimelineEntry(blunderMoveIndex).fen, Val(puzzle).fen)

\* The entry before the blunder gives the position before it and is the
\* opponent's setup move.
SetupEntryMatches ==
  blunderMoveIndex > 0 =>
     LET e == TimelineEntry(blunderMoveIndex - 1)
     IN  /\ e.fen = Val(puzzle).preFen
         /\ Val(puzzle).opponentLastMove = Some([from |-> e.from, to |-> e.to, san |-> e.san])

\* Entry i is its from-to move played in the position of entry i - 1.
ReplayedFromPrevious(i) ==
  LET chess == ChessLoad(TimelineEntry(i - 1).fen)
      found == MovesByUci(chess, TimelineEntry(i).from, TimelineEntry(i).to)
  IN  /\ found # {}
      /\ LET move == CHOOSE m \in found : TRUE
         IN  /\ TimelineEntry(i).fen = ChessFen(AfterMove(chess, move))
             /\ TimelineEntry(i).san = move.san

SolutionEntriesChained ==
  \A i \in (blunderMoveIndex + 1)..(Len(allMoves) - 1) : ReplayedFromPrevious(i)

\* C40: in every built puzzle the Timeline entry at blunderIndex matches
\* postBlunderPosition, the entry at blunderIndex - 1 (when there is one) has
\* the position preBlunderPosition and is the opponentSetupMove, and each
\* solution entry is replayed from the position of the entry before it.
C40_ReconstructionsAgree ==
  (BuildRan /\ error = None /\ IsSome(puzzle)) =>
     BlunderEntryMatches /\ SetupEntryMatches /\ SolutionEntriesChained

\* What does hold on every built puzzle: all of it but the setup move.
ReconstructionsAgreeOnPositions ==
  (BuildRan /\ error = None /\ IsSome(puzzle)) =>
     /\ BlunderEntryMatches
     /\ SolutionEntriesChained
     /\ blunderMoveIndex > 0 =>
           TimelineEntry(blunderMoveIndex - 1).fen = Val(puzzle).preFen

\* And all of it when the rules engine throws on an illegal move, and
\* whenever every supplied move was legal.
ReconstructionsAgreeOnLegalLists ==
  (BuildRan /\ error = None /\ IsSome(puzzle)
     /\ (chessThrows \/ Rejected = None \/ Val(Rejected).uci)) =>
     BlunderEntryMatches /\ SetupEntryMatches /\ SolutionEntriesChained

\* A puzzle was built with history, blunder and two solution entries.
BuiltWithSolutionLine ==
  /\ BuildRan /\ error = None /\ IsSome(puzzle)
  /\ blunderMoveIndex > 0
  /\ Len(allMoves) > blunderMoveIndex + 2

\* A puzzle was built whose history stopped at an illegal move: the entry
\* before the blunder is there and no setup move is recorded.
BuiltWithoutSetupMove ==
  /\ BuildRan /\ error = None /\ IsSome(puzzle)
  /\ blunderMoveIndex > 0
  /\ Val(puzzle).opponentLastMove = None

====
